---- MODULE Spec2Model ----
(***************************************************************************)
(* Usage ledger, request boundary and client pipelines of puhui.           *)
(*                                                                         *)
(* The server keeps its data either in MySQL (tables users, usage_logs)    *)
(* or, when initDb could not reach the database, in process memory         *)
(* (arrays mockUsers, mockUsageLogs).  Every handler is translated with    *)
(* both branches.  A database transaction is modelled by its statements:   *)
(* rows written inside a transaction stay private to it until COMMIT, an   *)
(* UPDATE of a users row holds that row's exclusive lock until COMMIT or   *)
(* ROLLBACK, a plain SELECT takes no lock, and any statement may fail.     *)
(***************************************************************************)
EXTENDS Integers, Sequences, FiniteSets, TLC

\* ---------------------------------------------------------------- bounds
MaxUsers == 2
MaxLogs == 3
MaxTx == 2
MaxMs == 1
MaxWeeks == 1
MaxChunks == 3
MaxFiles == 2
MaxPolls == 2
MaxRows == 1
MaxLines == 5
MaxParts == 4
MaxGrounding == 3
MaxRefines == 2
MaxEvents == 2
MaxSessions == 2
MaxMessages == 2

UserIds == 1..MaxUsers
Reqs == 1..MaxTx

\* ------------------------------------------------------ program constants
DefaultTokens == 100000
Limit == 50
SevenDays == 7 * 24 * 60 * 60 * 1000
\* The default admin and admins made by createUser expire in the year 2100
\* (4102444800000 ms), an instant later than every instant of the model.
AdminExpiration == (MaxWeeks + 1) * SevenDays + 1
TopUpFeature == "admin-topup"

Usernames == {"admin", "alice"}
Features == {"chat"}

\* ----------------------------------------------------- JavaScript values
Num(n) == [t |-> "number", v |-> n]
Undefined == [t |-> "undefined", v |-> 0]
NaN == [t |-> "NaN", v |-> 0]

\* x -= n  on a JavaScript value: undefined - n and NaN - n are NaN
JsSub(x, n) == IF x.t = "number" THEN Num(x.v - n) ELSE NaN

\* tokenCount || 1: an absent or zero count is charged as one token
OrOne(tc) == IF tc.t = "number" /\ tc.v # 0 THEN tc.v ELSE 1

\* tokenCount || 0
OrZero(tc) == IF tc.t = "number" /\ tc.v # 0 THEN tc.v ELSE 0

TokenCounts == {Undefined, Num(0), Num(2)}
TokenInputs == {DefaultTokens}
ExpirationInputs == {SevenDays}

\* String(n) for a non-negative integer, as its decimal digits
RECURSIVE ToDigits(_)
ToDigits(n) == IF n < 10 THEN <<n>> ELSE Append(ToDigits(n \div 10), n % 10)

\* parseInt(s) of a digit string
RECURSIVE ParseDigits(_)
ParseDigits(s) ==
    IF Len(s) = 0 THEN 0
    ELSE 10 * ParseDigits(SubSeq(s, 1, Len(s) - 1)) + s[Len(s)]

\* parseInt(r.created_at): the value is converted to a string and parsed
ParseInt(n) == ParseDigits(ToDigits(n))

\* ------------------------------------------------------------------ state
VARIABLES
    useMockDb,      \* dbService.useMockDb, fixed by initDb
    now,            \* Date.now()
    users,          \* table users, by id
    usage_logs,     \* table usage_logs, in insertion (commit) order
    mockUsers,      \* mockData.mockUsers, by id
    mockUsageLogs,  \* mockData.mockUsageLogs
    nextUserId,     \* AUTO_INCREMENT of users / mockData.nextUserId
    jwt,            \* the token each account's browser holds
    lock,           \* holder of the exclusive lock of each users row
    tx,             \* the open database transaction of each connection
    last,           \* the response written most recently
    ui,             \* the browser: the operation in progress or just ended
    sse,            \* the streaming request being served, or the last one
    tmpdir,         \* the files in os.tmpdir()
    transcripts,    \* table transcripts
    parsed,         \* the research request answered and its response
    refined,        \* the refine requests answered
    reader,         \* the browser's reader of a streamed response
    chats           \* tables chat_sessions and chat_messages, or the arrays
                    \* mockChatSessions and mockChatMessages

vars == <<useMockDb, now, users, usage_logs, mockUsers, mockUsageLogs,
          nextUserId, jwt, lock, tx, last, ui, sse, tmpdir, transcripts,
          parsed, refined, reader, chats>>

relay == <<sse, tmpdir, transcripts, parsed, refined>>

server == <<useMockDb, now, users, usage_logs, mockUsers, mockUsageLogs,
            nextUserId, jwt, lock, tx, last>>

NoRow == [exists |-> FALSE, username |-> "", role |-> "user",
          is_approved |-> FALSE, expiration_date |-> 0, tokens |-> Undefined]

NoHeader == [kind |-> "none", id |-> 1, role |-> "user", exp |-> 0]
\* the sender of a request without a header, as responses record it
Anonymous == [credential |-> "none", user |-> 1]
\* a bearer string that is not a token signed with JWT_SECRET;
\* the identity it claims is the default admin's
Forged == [kind |-> "forged", id |-> 1, role |-> "admin", exp |-> 0]

IdleTx == [pc |-> "idle", op |-> "", auth |-> Anonymous, user |-> 1,
           feature |-> "", tokenCount |-> Undefined,
           created_at |-> 0, newTokens |-> Undefined, target |-> 1,
           role |-> "user", is_approved |-> FALSE, expiration_date |-> 0,
           tokens |-> 0, currentTokens |-> Undefined, topup |-> 0]

NoResponse == [op |-> "", credential |-> "none", user |-> 1, status |-> 0,
               handler |-> FALSE, gateway |-> FALSE, files |-> 0, body |-> <<>>]

\* what the Authorization header of a request is: absent, not a token of
\* this server, a token past its expiry, or a token in force
Credential(h) ==
    IF h.kind # "jwt" THEN h.kind
    ELSE IF now < h.exp THEN "valid" ELSE "expired"

\* the sender of a request as responses record it: what the header was
\* when the request arrived, and the identity it claimed
Caller(h) == [credential |-> Credential(h), user |-> h.id]

\* res.json / res.sendStatus of one request: who asked what, the status,
\* and how far the request got (the handler ran, the Gateway was called,
\* uploaded files were stored)
Respond(op, who, status, handler, gateway, files, body) ==
    last' = [op |-> op, credential |-> who.credential, user |-> who.user,
             status |-> status, handler |-> handler, gateway |-> gateway,
             files |-> files, body |-> body]

\* ------------------------------------------------------------------- auth
\* signToken: { id, username, role }, expiresIn 7d
signToken(id, role) == [kind |-> "jwt", id |-> id, role |-> role,
                        exp |-> now + SevenDays]

\* jwt.verify: the signature is genuine and the token has not expired
JwtVerify(h) == h.kind = "jwt" /\ now < h.exp

\* a middleware that lets a request through whatever its header is
authenticateAnyone(h) == [next |-> TRUE, status |-> 0]

\* authenticateToken: 401 without a token, 403 when verification fails,
\* otherwise req.user = payload and next()
authenticateToken(h) ==
    IF h.kind = "none" THEN [next |-> FALSE, status |-> 401]
    ELSE IF ~JwtVerify(h) THEN [next |-> FALSE, status |-> 403]
    ELSE [next |-> TRUE, status |-> 0]

\* the Authorization headers a client can send
Headers == {NoHeader, Forged} \cup {jwt[i] : i \in {j \in UserIds : jwt[j].kind = "jwt"}}

\* no operation has run in the browser yet.  op, pc: the handler and the
\* call it awaits; usage: the handler's totalTokens / finalUsage / result
\* usage; logUsage: the counts passed to userService.logUsage so far;
\* gateway, reported, persisted, failed: what happened to the operation's
\* Gateway calls, the cost they reported, whether its artifact was saved
\* and whether one of its requests failed; prompt: the prompt handed to
\* generateInfographicImage
IdleUi == [pc |-> "idle", op |-> "", usage |-> Num(0), logUsage |-> <<>>,
           gateway |-> "none", reported |-> 0, persisted |-> FALSE,
           failed |-> FALSE, prompt |-> <<>>]

\* ------------------------------------------------------------------ text
\* a string is the sequence of its characters
Whitespace == {" ", "\n"}

RECURSIVE TrimStart(_)
TrimStart(s) ==
    IF Len(s) = 0 \/ Head(s) \notin Whitespace THEN s ELSE TrimStart(Tail(s))

RECURSIVE TrimEnd(_)
TrimEnd(s) ==
    IF Len(s) = 0 \/ s[Len(s)] \notin Whitespace THEN s
    ELSE TrimEnd(SubSeq(s, 1, Len(s) - 1))

\* s.trim()
Trim(s) == TrimEnd(TrimStart(s))

\* s.split('\n'): the lines of s, one more than its line breaks
RECURSIVE Split(_)
Split(s) ==
    IF Len(s) = 0 THEN << <<>> >>
    ELSE LET rest == Split(Tail(s))
         IN  IF Head(s) = "\n" THEN << <<>> >> \o rest
             ELSE << <<Head(s)>> \o rest[1] >> \o Tail(rest)

\* lines.join('\n')
RECURSIVE Join(_)
Join(lines) ==
    IF Len(lines) = 0 THEN <<>>
    ELSE IF Len(lines) = 1 THEN lines[1]
    ELSE lines[1] \o <<"\n">> \o Join(Tail(lines))

\* a.slice(from)
SliceFrom(a, from) == SubSeq(a, from + 1, Len(a))

\* a + b + ... for a sequence of strings
RECURSIVE Concat(_)
Concat(strings) ==
    IF Len(strings) = 0 THEN <<>> ELSE Head(strings) \o Concat(Tail(strings))

\* ---------------------------------------------------------- relay state
\* no streaming request has been received.  route: the handler; pc: the
\* await the handler is at; files: the length of req.files; stored: the
\* files the upload middleware put on disk; tempFiles, uploadedFiles: the
\* handler's arrays; activeFiles: the files waitForFilesActive is done
\* with; polls: getFile calls answered PROCESSING; received: chunk.text()
\* of every chunk the stream yielded; carried: which of the chunks had
\* groundingMetadata; fullText: the handler's accumulator; metadata:
\* aggregatedGroundingMetadata, as the number of the chunk it came with,
\* 0 for null;
\* status: the HTTP status sent; written: the events passed to res.write;
\* connected: the client is still there; ended: res.end() was called;
\* threw: an exception is in flight; escaped: one left the handler;
\* failure: what went wrong, if anything
IdleSse == [route |-> "", pc |-> "idle", files |-> 0,
            stored |-> {}, tempFiles |-> <<>>, uploadedFiles |-> 0,
            activeFiles |-> 0, polls |-> 0, received |-> <<>>, carried |-> {},
            fullText |-> <<>>, metadata |-> 0, status |-> 0, written |-> <<>>,
            connected |-> TRUE, ended |-> FALSE, threw |-> FALSE,
            escaped |-> FALSE, failure |-> "none"]

\* no refine request has been answered.  id, type: the request;
\* available: the server has a Gateway client; found: the SELECT returned
\* a row; status: the HTTP status; originalText: the text put into the
\* prompt; refinedText: the Gateway's answer; done: the refinement types
\* answered 200 so far
NoRefine == [id |-> 0, type |-> "", available |-> FALSE, found |-> FALSE,
             status |-> 0, originalText |-> <<>>, refinedText |-> <<>>,
             done |-> <<>>]

\* no stream has been requested.  pc: where streamRequest is; sent: the
\* events the server wrote; rest: the bytes of the response not yet
\* handed out by reader.read(); buffer: the variable buffer; held: the
\* buffer was not empty when the last read arrived; yielded: the values
\* the generator yielded
IdleReader == [pc |-> "idle", sent |-> <<>>, rest |-> <<>>, buffer |-> <<>>,
               held |-> FALSE, yielded |-> <<>>]

\* no research request has been answered.  status: the HTTP status; req:
\* the request body; outcome, text, chunks: what the Gateway did and
\* answered; imagePrompt, facts, searchResults, usage: the body of the
\* response
NoParse == [status |-> 0, outcome |-> "none", req |-> [topic |-> <<>>, language |-> <<>>,
                                   aspectRatio |-> <<>>],
            text |-> <<>>, chunks |-> <<>>, imagePrompt |-> <<>>,
            facts |-> <<>>, searchResults |-> <<>>, usage |-> 0]

\* ------------------------------------------------------------------ Init
AdminRow == [exists |-> TRUE, username |-> "admin", role |-> "admin",
             is_approved |-> TRUE, expiration_date |-> AdminExpiration,
             tokens |-> Num(DefaultTokens)]

\* tokens signed before a restart stay valid: they carry their own expiry
\* and JWT_SECRET does not change
StaleJwt(i) ==
    IF i = 1 THEN [kind |-> "jwt", id |-> 1, role |-> "admin", exp |-> SevenDays]
    ELSE IF i = 2 THEN [kind |-> "jwt", id |-> 2, role |-> "user", exp |-> SevenDays]
    ELSE NoHeader

Init ==
    /\ useMockDb \in BOOLEAN
    /\ now = 1
    /\ users = [i \in UserIds |-> IF i = 1 /\ ~useMockDb THEN AdminRow ELSE NoRow]
    /\ usage_logs = <<>>
    /\ mockUsers = [i \in UserIds |-> NoRow]
    /\ mockUsageLogs = <<>>
    /\ nextUserId = IF useMockDb THEN 1 ELSE 2
    /\ jwt = [i \in UserIds |-> IF useMockDb THEN StaleJwt(i) ELSE NoHeader]
    /\ lock = [i \in UserIds |-> 0]
    /\ tx = [r \in Reqs |-> IdleTx]
    /\ last = NoResponse
    /\ ui = IdleUi
    /\ sse = IdleSse
    /\ tmpdir = {}
    /\ transcripts = <<>>
    /\ parsed = NoParse
    /\ refined = NoRefine
    /\ reader = IdleReader
    /\ chats = [sessions |-> <<>>, messages |-> <<>>]

\* ------------------------------------------------------------------ time
\* Date.now() advances, by a millisecond or by a week
Tick ==
    /\ \/ /\ now % SevenDays <= MaxMs
          /\ now' = now + 1
       \/ /\ now + SevenDays <= MaxWeeks * SevenDays + MaxMs + 1
          /\ now' = now + SevenDays
    /\ UNCHANGED <<relay, reader, chats, ui, useMockDb, users, usage_logs, mockUsers, mockUsageLogs,
                   nextUserId, jwt, lock, tx, last>>

\* ------------------------------------------------------- register, login
FindByName(tbl, name) == {i \in UserIds : tbl[i].exists /\ tbl[i].username = name}

NewRow(name, role, approved, expiration, tokens) ==
    [exists |-> TRUE, username |-> name, role |-> role, is_approved |-> approved,
     expiration_date |-> expiration, tokens |-> tokens]

\* register: a new unapproved 'user' row; the database gives tokens its
\* default, the object pushed to mockUsers has no tokens property
register(name) ==
    /\ nextUserId <= MaxUsers
    /\ IF useMockDb
       THEN IF FindByName(mockUsers, name) # {}
            THEN /\ Respond("register", Anonymous, 409, TRUE, FALSE, 0, <<>>)
                 /\ UNCHANGED <<mockUsers, nextUserId>>
            ELSE /\ mockUsers' = [mockUsers EXCEPT ![nextUserId] =
                                    NewRow(name, "user", FALSE, 0, Undefined)]
                 /\ nextUserId' = nextUserId + 1
                 /\ Respond("register", Anonymous, 200, TRUE, FALSE, 0, <<>>)
       ELSE /\ UNCHANGED mockUsers
            /\ IF FindByName(users, name) # {}
               THEN /\ Respond("register", Anonymous, 409, TRUE, FALSE, 0, <<>>)
                    /\ UNCHANGED nextUserId
               ELSE /\ nextUserId' = nextUserId + 1
                    /\ Respond("register", Anonymous, 200, TRUE, FALSE, 0, <<>>)
    /\ users' = IF ~useMockDb /\ FindByName(users, name) = {}
                THEN [users EXCEPT ![nextUserId] =
                        NewRow(name, "user", FALSE, 0, Num(DefaultTokens))]
                ELSE users
    /\ UNCHANGED <<relay, reader, chats, ui, useMockDb, now, usage_logs, mockUsageLogs, jwt, lock, tx>>

\* the checks login makes on the row it found
LoginStatus(row, pwOk) ==
    IF ~pwOk THEN 400
    ELSE IF row.role # "admin" /\ ~row.is_approved THEN 403
    ELSE IF /\ row.role # "admin"
            /\ row.expiration_date # 0
            /\ now > ParseInt(row.expiration_date) THEN 403
    ELSE 200

\* login: on success the browser of that account stores the signed token
login(name, pwOk) ==
    LET tbl == IF useMockDb THEN mockUsers ELSE users
        found == FindByName(tbl, name)
    IN  /\ IF found = {}
           THEN /\ Respond("login", Anonymous, 400, TRUE, FALSE, 0, <<>>)
                /\ UNCHANGED jwt
           ELSE LET id == CHOOSE i \in found : TRUE
                    st == LoginStatus(tbl[id], pwOk)
                IN  /\ Respond("login", Anonymous, st, TRUE, FALSE, 0, <<>>)
                    /\ jwt' = IF st = 200
                              THEN [jwt EXCEPT ![id] = signToken(id, tbl[id].role)]
                              ELSE jwt
        /\ UNCHANGED <<relay, reader, chats, ui, useMockDb, now, users, usage_logs, mockUsers, mockUsageLogs,
                       nextUserId, lock, tx>>

\* ------------------------------------------------- rejected by middleware
\* routes mounted behind authenticateToken: usage, admin and gemini routers
AuthedOps == {"logUsage", "updateUser", "deleteUser", "research", "chat"}

\* authenticateToken answered; the rest of the route never runs
AuthReject(h, op) ==
    /\ ~authenticateToken(h).next
    /\ Respond(op, Caller(h), authenticateToken(h).status, FALSE, FALSE, 0, <<>>)
    /\ UNCHANGED <<relay, reader, chats, ui, useMockDb, now, users, usage_logs, mockUsers, mockUsageLogs,
                   nextUserId, jwt, lock, tx>>

\* --------------------------------------------------------------- logUsage
LogRow(uid, feature, amount, at) ==
    [user_id |-> uid, feature_name |-> feature, token_count |-> amount, created_at |-> at]

\* logUsage with useMockDb: push the record, then find the user and
\* subtract; no await separates the two, the handler runs in one piece
logUsageMock(h, feature, tc) ==
    /\ useMockDb
    /\ authenticateToken(h).next
    /\ Len(mockUsageLogs) < MaxLogs
    /\ mockUsageLogs' = Append(mockUsageLogs, LogRow(h.id, feature, OrZero(tc), now))
    /\ IF mockUsers[h.id].exists
       THEN /\ mockUsers' = [mockUsers EXCEPT ![h.id].tokens = JsSub(@, OrZero(tc))]
            /\ Respond("logUsage", Caller(h), 200, TRUE, FALSE, 0, <<>>)
       ELSE /\ UNCHANGED mockUsers
            /\ Respond("logUsage", Caller(h), 200, TRUE, FALSE, 0, <<>>)
    /\ UNCHANGED <<relay, reader, chats, ui, useMockDb, now, users, usage_logs, nextUserId, jwt, lock, tx>>

\* every open transaction may still insert one usage_logs row
Room == Len(usage_logs) + Cardinality({r \in Reqs : tx[r].pc # "idle"}) < MaxLogs

\* logUsage, database branch: getConnection, beginTransaction and the
\* INSERT.  The row stays private to the transaction.  The foreign key
\* makes the INSERT fail when the users row is gone: rollback, 500.
logUsageInsert(r, h, feature, tc) ==
    /\ ~useMockDb
    /\ authenticateToken(h).next
    /\ tx[r].pc = "idle"
    /\ Room
    /\ IF users[h.id].exists
       THEN /\ tx' = [tx EXCEPT ![r] = [IdleTx EXCEPT !.pc = "lu_update",
                         !.op = "logUsage", !.auth = Caller(h), !.user = h.id,
                         !.feature = feature, !.tokenCount = tc,
                         !.created_at = now]]
            /\ UNCHANGED last
       ELSE /\ Respond("logUsage", Caller(h), 500, TRUE, FALSE, 0, <<>>)
            /\ UNCHANGED tx
    /\ UNCHANGED <<relay, reader, chats, ui, useMockDb, now, users, usage_logs, mockUsers, mockUsageLogs,
                   nextUserId, jwt, lock>>

\* an UPDATE that does not wait for the row
RowNeverLocked(id) == TRUE

\* an UPDATE of a users row waits until no other transaction holds its
\* exclusive lock
RowFree(id) == lock[id] = 0

\* SET tokens = tokens - ?  evaluated on the row as committed, under its lock
DebitedTokens(r) == Num(users[tx[r].user].tokens.v - OrZero(tx[r].tokenCount))

\* UPDATE users SET tokens = tokens - ? WHERE id = ?: waits for the row lock
logUsageUpdate(r) ==
    /\ tx[r].pc = "lu_update"
    /\ RowFree(tx[r].user)
    /\ lock' = [lock EXCEPT ![tx[r].user] = r]
    /\ tx' = [tx EXCEPT ![r].pc = "lu_commit", ![r].newTokens = DebitedTokens(r)]
    /\ UNCHANGED <<relay, reader, chats, ui, useMockDb, now, users, usage_logs, mockUsers, mockUsageLogs,
                   nextUserId, jwt, last>>

\* SELECT tokens (the transaction's own write), COMMIT, res.json
logUsageCommit(r) ==
    /\ tx[r].pc = "lu_commit"
    /\ usage_logs' = Append(usage_logs,
                            LogRow(tx[r].user, tx[r].feature, OrZero(tx[r].tokenCount),
                                   tx[r].created_at))
    /\ users' = [users EXCEPT ![tx[r].user].tokens = tx[r].newTokens]
    /\ lock' = [lock EXCEPT ![tx[r].user] = 0]
    /\ tx' = [tx EXCEPT ![r] = IdleTx]
    /\ Respond("logUsage", tx[r].auth, 200, TRUE, FALSE, 0, <<>>)
    /\ UNCHANGED <<relay, reader, chats, ui, useMockDb, now, mockUsers, mockUsageLogs, nextUserId, jwt>>

\* a statement or the COMMIT of an open transaction fails:
\* catch, connection.rollback(), 500
txFail(r) ==
    /\ tx[r].pc # "idle"
    /\ lock' = [i \in UserIds |-> IF lock[i] = r THEN 0 ELSE lock[i]]
    /\ tx' = [tx EXCEPT ![r] = IdleTx]
    /\ Respond(tx[r].op, tx[r].auth, 500, TRUE, FALSE, 0, <<>>)
    /\ UNCHANGED <<relay, reader, chats, ui, useMockDb, now, users, usage_logs, mockUsers, mockUsageLogs,
                   nextUserId, jwt>>

\* ------------------------------------------------------ chat sessions
\* a row of chat_sessions / an entry of mockChatSessions, and a row of
\* chat_messages / an entry of mockChatMessages
SessionRow(id, uid, title, at) ==
    [id |-> id, user_id |-> uid, title |-> title, updated_at |-> at]

MessageRow(sid, content, at) ==
    [session_id |-> sid, content |-> content, created_at |-> at]

\* Array.prototype.find / the row an UPDATE or DELETE with WHERE matches:
\* the index of the first session with the id whose user_id is among
\* owners, or 0
FindSession(id, owners) ==
    LET found == {k \in DOMAIN chats.sessions :
                     /\ chats.sessions[k].id = id
                     /\ chats.sessions[k].user_id \in owners}
    IN  IF found = {} THEN 0 ELSE CHOOSE k \in found : \A j \in found : k <= j

Without(s, k) == SubSeq(s, 1, k - 1) \o SubSeq(s, k + 1, Len(s))

\* createSession: the id comes from the body; the array takes any entry,
\* the table refuses a second row with the id (PRIMARY KEY): 500
createSession(h, id, at) ==
    /\ authenticateToken(h).next
    /\ Len(chats.sessions) < MaxSessions
    /\ LET taken == FindSession(id, UserIds) # 0
       IN  IF ~useMockDb /\ (taken \/ ~users[h.id].exists)
           THEN /\ UNCHANGED chats
                /\ Respond("createSession", Caller(h), 500, TRUE, FALSE, 0, <<>>)
           ELSE /\ chats' = [chats EXCEPT !.sessions =
                                Append(@, SessionRow(id, h.id, "a", at))]
                /\ Respond("createSession", Caller(h), 200, TRUE, FALSE, 0, <<>>)
    /\ UNCHANGED <<relay, reader, ui, useMockDb, now, users, usage_logs, mockUsers,
                   mockUsageLogs, nextUserId, jwt, lock, tx>>

\* updateSession: find(s => s.id === id && s.user_id === req.user.id) /
\* UPDATE ... WHERE id = ? AND user_id = ?
updateSession(h, id, title) ==
    /\ authenticateToken(h).next
    /\ LET k == FindSession(id, {h.id})
       IN  chats' = IF k = 0 THEN chats
                    ELSE [chats EXCEPT !.sessions[k].title = title]
    /\ Respond("updateSession", Caller(h), 200, TRUE, FALSE, 0, <<>>)
    /\ UNCHANGED <<relay, reader, ui, useMockDb, now, users, usage_logs, mockUsers,
                   mockUsageLogs, nextUserId, jwt, lock, tx>>

\* deleteSession: splice of the caller's session / DELETE ... WHERE id = ?
\* AND user_id = ?, which takes the session's messages with it (ON DELETE
\* CASCADE); the array of messages is left alone
deleteSession(h, id) ==
    /\ authenticateToken(h).next
    /\ LET k == FindSession(id, {h.id})
       IN  chats' = IF k = 0 THEN chats
                    ELSE [sessions |-> Without(chats.sessions, k),
                          messages |-> IF useMockDb THEN chats.messages
                                       ELSE SelectSeq(chats.messages,
                                                LAMBDA m : m.session_id # id)]
    /\ Respond("deleteSession", Caller(h), 200, TRUE, FALSE, 0, <<>>)
    /\ UNCHANGED <<relay, reader, ui, useMockDb, now, users, usage_logs, mockUsers,
                   mockUsageLogs, nextUserId, jwt, lock, tx>>

\* saveMessage: push / INSERT INTO chat_messages (refused without a
\* session of that id, FOREIGN KEY: 500), then updated_at of
\* find(s => s.id === session_id) / UPDATE chat_sessions ... WHERE id = ?
saveMessage(h, session_id, content, at) ==
    /\ authenticateToken(h).next
    /\ Len(chats.messages) < MaxMessages
    /\ LET k == FindSession(session_id, UserIds)
       IN  IF ~useMockDb /\ k = 0
           THEN /\ UNCHANGED chats
                /\ Respond("saveMessage", Caller(h), 500, TRUE, FALSE, 0, <<>>)
           ELSE /\ chats' =
                      [sessions |-> IF k = 0 THEN chats.sessions
                                    ELSE [chats.sessions EXCEPT ![k].updated_at = at],
                       messages |-> Append(chats.messages,
                                           MessageRow(session_id, content, at))]
                /\ Respond("saveMessage", Caller(h), 200, TRUE, FALSE, 0, <<>>)
    /\ UNCHANGED <<relay, reader, ui, useMockDb, now, users, usage_logs, mockUsers,
                   mockUsageLogs, nextUserId, jwt, lock, tx>>

\* .sort((a, b) => a.created_at - b.created_at) / ORDER BY created_at ASC
RECURSIVE SortAsc(_)
SortAsc(s) ==
    IF Len(s) = 0 THEN <<>>
    ELSE LET init == SortAsc(SubSeq(s, 1, Len(s) - 1))
             x == s[Len(s)]
             before == SelectSeq(init, LAMBDA m : m.created_at <= x.created_at)
             after == SelectSeq(init, LAMBDA m : m.created_at > x.created_at)
         IN  before \o <<x>> \o after

\* getMessages: 403 unless the session of that id is the caller's, else
\* its messages, oldest first
getMessages(h, sessionId) ==
    /\ authenticateToken(h).next
    /\ LET k == FindSession(sessionId, UserIds)
           msgs == SortAsc(SelectSeq(chats.messages,
                                     LAMBDA m : m.session_id = sessionId))
       IN  IF k = 0 \/ chats.sessions[k].user_id # h.id
           THEN Respond("getMessages", Caller(h), 403, TRUE, FALSE, 0, <<>>)
           ELSE Respond("getMessages", Caller(h), 200, TRUE, FALSE, 0,
                        [i \in DOMAIN msgs |-> msgs[i].content])
    /\ UNCHANGED <<relay, reader, chats, ui, useMockDb, now, users, usage_logs, mockUsers,
                   mockUsageLogs, nextUserId, jwt, lock, tx>>

\* ------------------------------------------------------------- getMyUsage
\* Array.prototype.sort((a, b) => b.created_at - a.created_at) and
\* ORDER BY created_at DESC: a stable sort, newest first
\* the opposite order, a.created_at - b.created_at
OldestFirst(a, b) == a.created_at <= b.created_at

\* a stays in front of b: b.created_at - a.created_at <= 0
NewestFirst(a, b) == a.created_at >= b.created_at

RECURSIVE InsertDesc(_, _)
InsertDesc(s, x) ==
    IF Len(s) = 0 THEN <<x>>
    ELSE IF NewestFirst(Head(s), x) THEN <<Head(s)>> \o InsertDesc(Tail(s), x)
    ELSE <<x>> \o s

RECURSIVE SortDesc(_)
SortDesc(s) ==
    IF Len(s) = 0 THEN <<>>
    ELSE InsertDesc(SortDesc(SubSeq(s, 1, Len(s) - 1)), s[Len(s)])

Min(a, b) == IF a < b THEN a ELSE b

\* .filter(l => l.user_id === req.user.id).sort(...)
MockUsageRows(uid) == SortDesc(SelectSeq(mockUsageLogs, LAMBDA l : l.user_id = uid))

\* WHERE user_id = ? [AND created_at >= ?] ORDER BY created_at DESC
\* [LIMIT ? OFFSET ?]
SqlUsageRows(uid, period, page) ==
    LET mine == SelectSeq(usage_logs, LAMBDA l :
                    /\ l.user_id = uid
                    /\ (period = "week" => l.created_at >= now - SevenDays))
        sorted == SortDesc(mine)
        offset == (page - 1) * Limit
    IN  IF period = "week" THEN sorted
        ELSE SubSeq(sorted, offset + 1, Min(Len(sorted), offset + Limit))

\* rows.map(r => ({ feature, tokenCount, timestamp: parseInt(r.created_at) }))
MapUsage(rows) ==
    [i \in 1..Len(rows) |-> [feature |-> rows[i].feature_name,
                             tokenCount |-> rows[i].token_count,
                             timestamp |-> ParseInt(rows[i].created_at)]]

Periods == {"week", "all"}
Pages == {1, 2}

getMyUsage(h, period, page) ==
    /\ authenticateToken(h).next
    /\ Respond("getMyUsage", Caller(h), 200, TRUE, FALSE, 0,
               MapUsage(IF useMockDb THEN MockUsageRows(h.id)
                        ELSE SqlUsageRows(h.id, period, page)))
    /\ UNCHANGED <<relay, reader, chats, ui, useMockDb, now, users, usage_logs, mockUsers, mockUsageLogs,
                   nextUserId, jwt, lock, tx>>

\* ------------------------------------------------------------------ admin
AdminOps == {"updateUser", "deleteUser", "createUser"}

\* if (req.user.role !== 'admin') return res.sendStatus(403)
adminForbidden(h, op) ==
    /\ authenticateToken(h).next
    /\ h.role # "admin"
    /\ Respond(op, Caller(h), 403, TRUE, FALSE, 0, <<>>)
    /\ UNCHANGED <<relay, reader, chats, ui, useMockDb, now, users, usage_logs, mockUsers, mockUsageLogs,
                   nextUserId, jwt, lock, tx>>

\* updateUser up to its SELECT tokens: a plain read, no lock.  The handler
\* has no in-memory branch: with the database unreachable getConnection
\* rejects before the try block and nothing changes.
updateUserSelect(r, h, id, approved, expiration, tokens) ==
    /\ ~useMockDb
    /\ authenticateToken(h).next
    /\ h.role = "admin"
    /\ tx[r].pc = "idle"
    /\ Room
    /\ IF users[id].exists
       THEN /\ tx' = [tx EXCEPT ![r] = [IdleTx EXCEPT !.pc = "uu_update",
                         !.op = "updateUser", !.auth = Caller(h), !.target = id,
                         !.role = users[id].role, !.is_approved = approved,
                         !.expiration_date = expiration, !.tokens = tokens,
                         !.currentTokens = users[id].tokens]]
            /\ UNCHANGED last
       ELSE /\ Respond("updateUser", Caller(h), 500, TRUE, FALSE, 0, <<>>)
            /\ UNCHANGED tx
    /\ UNCHANGED <<relay, reader, chats, ui, useMockDb, now, users, usage_logs, mockUsers, mockUsageLogs,
                   nextUserId, jwt, lock>>

\* tokenChange = tokens - currentTokens
TokenChange(r) == tx[r].tokens - tx[r].currentTokens.v

\* UPDATE users SET ..., tokens = ? WHERE id = ?  and, when tokenChange > 0,
\* the INSERT of the top-up record; both private until COMMIT
updateUserWrite(r) ==
    /\ tx[r].pc = "uu_update"
    /\ users[tx[r].target].exists
    /\ RowFree(tx[r].target)
    /\ lock' = [lock EXCEPT ![tx[r].target] = r]
    /\ tx' = [tx EXCEPT ![r].pc = "uu_commit",
                        ![r].newTokens = Num(tx[r].tokens),
                        ![r].topup = IF TokenChange(r) > 0 THEN TokenChange(r) ELSE 0,
                        ![r].created_at = now]
    /\ UNCHANGED <<relay, reader, chats, ui, useMockDb, now, users, usage_logs, mockUsers, mockUsageLogs,
                   nextUserId, jwt, last>>

\* COMMIT, res.json
updateUserCommit(r) ==
    /\ tx[r].pc = "uu_commit"
    /\ users' = [users EXCEPT ![tx[r].target] =
                    [@ EXCEPT !.role = tx[r].role, !.is_approved = tx[r].is_approved,
                              !.expiration_date = tx[r].expiration_date,
                              !.tokens = tx[r].newTokens]]
    /\ usage_logs' = IF tx[r].topup > 0
                     THEN Append(usage_logs, LogRow(tx[r].target, TopUpFeature,
                                                    tx[r].topup, tx[r].created_at))
                     ELSE usage_logs
    /\ lock' = [lock EXCEPT ![tx[r].target] = 0]
    /\ tx' = [tx EXCEPT ![r] = IdleTx]
    /\ Respond("updateUser", tx[r].auth, 200, TRUE, FALSE, 0, <<>>)
    /\ UNCHANGED <<relay, reader, chats, ui, useMockDb, now, mockUsers, mockUsageLogs, nextUserId, jwt>>

\* the row was deleted after the SELECT: the UPDATE matches nothing and the
\* top-up INSERT, if any, violates the foreign key
updateUserGone(r) ==
    /\ tx[r].pc = "uu_update"
    /\ ~users[tx[r].target].exists
    /\ tx' = [tx EXCEPT ![r] = IdleTx]
    /\ Respond("updateUser", tx[r].auth, IF TokenChange(r) > 0 THEN 500 ELSE 200,
               TRUE, FALSE, 0, <<>>)
    /\ UNCHANGED <<relay, reader, chats, ui, useMockDb, now, users, usage_logs, mockUsers, mockUsageLogs,
                   nextUserId, jwt, lock>>

\* a DELETE on usage_logs without its WHERE clause
DeleteAllLogs(logs, id) == <<>>

\* ON DELETE CASCADE of usage_logs.user_id
Cascade(logs, id) == SelectSeq(logs, LAMBDA l : l.user_id # id)

\* a transaction that wrote the row or a child row of it blocks the DELETE
RowBusy(id) ==
    \/ lock[id] # 0
    \/ \E r \in Reqs : tx[r].pc \in {"lu_update", "lu_commit"} /\ tx[r].user = id

\* deleteUser: splice from mockUsers, or DELETE FROM users with its cascade
deleteUser(h, id) ==
    /\ authenticateToken(h).next
    /\ h.role = "admin"
    /\ IF useMockDb
       THEN /\ mockUsers' = [mockUsers EXCEPT ![id] = NoRow]
            /\ UNCHANGED <<users, usage_logs>>
       ELSE /\ ~RowBusy(id)
            /\ users' = [users EXCEPT ![id] = NoRow]
            /\ usage_logs' = Cascade(usage_logs, id)
            /\ UNCHANGED mockUsers
    /\ Respond("deleteUser", Caller(h), 200, TRUE, FALSE, 0, <<>>)
    /\ UNCHANGED <<relay, reader, chats, ui, useMockDb, now, mockUsageLogs, nextUserId, jwt, lock, tx>>

\* expirationDate of createUser: a week for 'user', the year 2100 for 'admin'
CreatedExpiration(role) == IF role = "admin" THEN AdminExpiration ELSE now + SevenDays

\* createUser: an approved row; a taken username answers { success: false }
createUser(h, name, role) ==
    /\ authenticateToken(h).next
    /\ h.role = "admin"
    /\ nextUserId <= MaxUsers
    /\ LET tbl == IF useMockDb THEN mockUsers ELSE users
           row == NewRow(name, role, TRUE, CreatedExpiration(role),
                         IF useMockDb THEN Undefined ELSE Num(DefaultTokens))
       IN  IF FindByName(tbl, name) # {}
           THEN UNCHANGED <<users, mockUsers, nextUserId>>
           ELSE /\ nextUserId' = nextUserId + 1
                /\ users' = IF useMockDb THEN users
                            ELSE [users EXCEPT ![nextUserId] = row]
                /\ mockUsers' = IF useMockDb
                                THEN [mockUsers EXCEPT ![nextUserId] = row]
                                ELSE mockUsers
    /\ Respond("createUser", Caller(h), 200, TRUE, FALSE, 0, <<>>)
    /\ UNCHANGED <<relay, reader, chats, ui, useMockDb, now, usage_logs, mockUsageLogs, jwt, lock, tx>>

\* ---------------------------------------------------------- gemini routes
\* research: 503 without genAI, else one Gateway call, 200 or 500.
\* chat: multer stores the uploaded files after authenticateToken, then the
\* handler answers 503 or opens the event stream and calls the Gateway.
gemini(h, op, files, outcome) ==
    /\ authenticateToken(h).next
    /\ Respond(op, Caller(h),
               IF outcome = "unavailable" THEN 503
               ELSE IF outcome = "error" /\ op = "research" THEN 500 ELSE 200,
               TRUE, outcome # "unavailable",
               IF op = "chat" THEN files ELSE 0, <<>>)
    /\ UNCHANGED <<relay, reader, chats, ui, useMockDb, now, users, usage_logs, mockUsers, mockUsageLogs,
                   nextUserId, jwt, lock, tx>>

\* ------------------------------------------------------------ the browser
\* usageMetadata.totalTokenCount of a Gateway answer
Usages == {0, 1, 2}

\* x + y on JavaScript values
JsAdd(x, y) == IF x.t = "number" /\ y.t = "number" THEN Num(x.v + y.v) ELSE NaN

\* what a gemini route answers: 200 { content, usage } or an error status
\* with { message }
ApiResponses == {[ok |-> TRUE, usage |-> Num(u)] : u \in Usages}
                    \cup {[ok |-> FALSE, usage |-> Undefined]}

\* what the research route answers: 200 { imagePrompt, facts,
\* searchResults, usage } or an error status with { message }
ResearchResponses ==
    {[ok |-> TRUE, usage |-> Num(u), imagePrompt |-> <<"p">>] : u \in Usages}
        \cup {[ok |-> FALSE, usage |-> Undefined, imagePrompt |-> <<>>]}

\* the response to the research request answered last, as fetch sees it
ResearchResponse(p) ==
    [ok |-> p.status = 200,
     usage |-> IF p.status = 200 THEN Num(p.usage) ELSE Undefined,
     imagePrompt |-> p.imagePrompt]

\* a request helper that returns the body of an error answer as a result
NeverThrows(resp) == FALSE

\* apiRequest, streamRequest: if (!response.ok) throw
Throws(resp) == ~resp.ok

\* the Gateway calls of the operation so far, after one more answer
GatewayAfter(u, resp) ==
    [u EXCEPT !.gateway = IF ~resp.ok \/ @ = "failed" THEN "failed" ELSE "ok",
              !.reported = IF resp.ok THEN @ + resp.usage.v ELSE @]

\* catch (err) { console.error(err); setError(...) } finally { ... }
Caught(u) == [u EXCEPT !.pc = "idle"]

\* the operation ran to the end of its try block
Finished(u) == [u EXCEPT !.pc = "idle"]

\* await userService.logUsage(feature, count): the request is sent, it
\* resolves or rejects
LogUsageCalled(u, ok) ==
    [u EXCEPT !.logUsage = Append(@, u.usage), !.failed = @ \/ ~ok]

Begin(op, pc) ==
    /\ ui.pc = "idle"
    /\ ui' = [IdleUi EXCEPT !.op = op, !.pc = pc]
    /\ UNCHANGED <<server, reader, chats, relay>>

\* useAppLogic.handleGenerate: research, generate-image, saveUserImage,
\* logUsage; the last two in an inner try whose catch only logs
handleGenerate == Begin("handleGenerate", "research")

handleGenerateResearch(resp) ==
    /\ ui.op = "handleGenerate" /\ ui.pc = "research"
    /\ ui' = IF Throws(resp) THEN Caught(GatewayAfter(ui, resp))
             ELSE [GatewayAfter(ui, resp) EXCEPT !.usage = Num(OrZero(resp.usage)),
                                                 !.prompt = resp.imagePrompt,
                                                 !.pc = "generate-image"]
    /\ UNCHANGED <<server, reader, chats, relay>>

handleGenerateImage(resp) ==
    /\ ui.op = "handleGenerate" /\ ui.pc = "generate-image"
    /\ ui' = IF Throws(resp) THEN Caught(GatewayAfter(ui, resp))
             ELSE [GatewayAfter(ui, resp) EXCEPT !.usage = JsAdd(@, resp.usage),
                                                 !.pc = "saveUserImage"]
    /\ UNCHANGED <<server, reader, chats, relay>>

handleGenerateSave(ok) ==
    /\ ui.op = "handleGenerate" /\ ui.pc = "saveUserImage"
    /\ ui' = IF ok THEN [ui EXCEPT !.persisted = TRUE, !.pc = "logUsage"]
             ELSE Finished([ui EXCEPT !.failed = TRUE])
    /\ UNCHANGED <<server, reader, chats, relay>>

handleGenerateLog(ok) ==
    /\ ui.op = "handleGenerate" /\ ui.pc = "logUsage"
    /\ ui' = Finished(LogUsageCalled(ui, ok))
    /\ UNCHANGED <<server, reader, chats, relay>>

\* useAppLogic.handleEdit: edit-image, saveUserImage, logUsage in one try
handleEdit == Begin("handleEdit", "edit-image")

handleEditImage(resp) ==
    /\ ui.op = "handleEdit" /\ ui.pc = "edit-image"
    /\ ui' = IF Throws(resp) THEN Caught(GatewayAfter(ui, resp))
             ELSE [GatewayAfter(ui, resp) EXCEPT !.usage = resp.usage,
                                                 !.pc = "saveUserImage"]
    /\ UNCHANGED <<server, reader, chats, relay>>

handleEditSave(ok) ==
    /\ ui.op = "handleEdit" /\ ui.pc = "saveUserImage"
    /\ ui' = IF ok THEN [ui EXCEPT !.persisted = TRUE, !.pc = "logUsage"]
             ELSE Caught([ui EXCEPT !.failed = TRUE])
    /\ UNCHANGED <<server, reader, chats, relay>>

handleEditLog(ok) ==
    /\ ui.op = "handleEdit" /\ ui.pc = "logUsage"
    /\ ui' = IF ok THEN Finished(LogUsageCalled(ui, ok))
             ELSE Caught(LogUsageCalled(ui, ok))
    /\ UNCHANGED <<server, reader, chats, relay>>

\* ImageGenerator.handleGenerate: generate-simple-image, logUsage, then
\* saveGeneratedImage
generatorSubmit == Begin("ImageGenerator", "generate-simple-image")

generatorImage(resp) ==
    /\ ui.op = "ImageGenerator" /\ ui.pc = "generate-simple-image"
    /\ ui' = IF Throws(resp) THEN Caught(GatewayAfter(ui, resp))
             ELSE [GatewayAfter(ui, resp) EXCEPT !.usage = resp.usage,
                                                 !.pc = "logUsage"]
    /\ UNCHANGED <<server, reader, chats, relay>>

generatorLog(ok) ==
    /\ ui.op = "ImageGenerator" /\ ui.pc = "logUsage"
    /\ ui' = IF ok THEN [LogUsageCalled(ui, ok) EXCEPT !.pc = "saveGeneratedImage"]
             ELSE Caught(LogUsageCalled(ui, ok))
    /\ UNCHANGED <<server, reader, chats, relay>>

generatorSave(ok) ==
    /\ ui.op = "ImageGenerator" /\ ui.pc = "saveGeneratedImage"
    /\ ui' = IF ok THEN Finished([ui EXCEPT !.persisted = TRUE])
             ELSE Caught([ui EXCEPT !.failed = TRUE])
    /\ UNCHANGED <<server, reader, chats, relay>>

\* the events geminiController.chat writes: a text event per chunk, one
\* groundingMetadata event if the answer was grounded, then [DONE]; or,
\* from its catch, an error event and the end of the stream.  None of the
\* objects it writes has a usage property.
ChatEvent(type) == [type |-> type, usage |-> Undefined]

ChatStream(outcome, grounded) ==
    <<ChatEvent("text")>>
        \o (IF grounded THEN <<ChatEvent("groundingMetadata")>> ELSE <<>>)
        \o (IF outcome = "ok" THEN <<ChatEvent("[DONE]")>> ELSE <<ChatEvent("error")>>)

\* what the chat route answers: an error status, or 200 and a stream
ChatResponses ==
    {[ok |-> FALSE, usage |-> Undefined, events |-> <<>>]}
        \cup {[ok |-> TRUE, usage |-> Undefined, events |-> ChatStream(o, g)] :
                  o \in {"ok", "error"}, g \in BOOLEAN}

\* streamRequest: the parsed objects up to [DONE] or the end of the stream
RECURSIVE Chunks(_)
Chunks(events) ==
    IF Len(events) = 0 \/ Head(events).type = "[DONE]" THEN <<>>
    ELSE <<Head(events)>> \o Chunks(Tail(events))

\* let finalUsage = 0; for each chunk: if (chunk.usage) finalUsage = chunk.usage
RECURSIVE FinalUsage(_)
FinalUsage(chunks) ==
    IF Len(chunks) = 0 THEN Num(0)
    ELSE LET c == chunks[Len(chunks)]
         IN  IF c.usage.t = "number" /\ c.usage.v # 0 THEN c.usage
             ELSE FinalUsage(SubSeq(chunks, 1, Len(chunks) - 1))

\* the stream ran to [DONE]: the Gateway call behind it succeeded
StreamAnswer(resp) ==
    [ok |-> resp.ok /\ Len(resp.events) > 0
                    /\ resp.events[Len(resp.events)].type = "[DONE]",
     usage |-> Num(0)]

\* AIAssistant.handleSend: createChatSession for a new conversation,
\* saveChatMessage of the user's text, the chat stream, saveChatMessage of
\* the answer, and logUsage if (finalUsage > 0)
handleSend(newSession) ==
    Begin("handleSend", IF newSession THEN "createChatSession" ELSE "saveChatMessage-user")

handleSendSession(ok) ==
    /\ ui.op = "handleSend" /\ ui.pc = "createChatSession"
    /\ ui' = IF ok THEN [ui EXCEPT !.pc = "saveChatMessage-user"]
             ELSE Finished([ui EXCEPT !.failed = TRUE])
    /\ UNCHANGED <<server, reader, chats, relay>>

handleSendSaveUser(ok) ==
    /\ ui.op = "handleSend" /\ ui.pc = "saveChatMessage-user"
    /\ ui' = IF ok THEN [ui EXCEPT !.pc = "chat"]
             ELSE Caught([ui EXCEPT !.failed = TRUE])
    /\ UNCHANGED <<server, reader, chats, relay>>

handleSendStream(resp) ==
    /\ ui.op = "handleSend" /\ ui.pc = "chat"
    /\ ui' = IF Throws(resp) THEN Caught(GatewayAfter(ui, StreamAnswer(resp)))
             ELSE [GatewayAfter(ui, StreamAnswer(resp)) EXCEPT
                       !.usage = FinalUsage(Chunks(resp.events)),
                       !.pc = "saveChatMessage-model"]
    /\ UNCHANGED <<server, reader, chats, relay>>

\* the last two awaits of handleSend: saveChatMessage of the answer, then
\* if (finalUsage > 0) logUsage
handleSendSaveModel(ok, logged) ==
    /\ ui.op = "handleSend" /\ ui.pc = "saveChatMessage-model"
    /\ ui' = IF ~ok THEN Caught([ui EXCEPT !.failed = TRUE])
             ELSE IF ui.usage.t = "number" /\ ui.usage.v > 0
                  THEN IF logged
                       THEN Finished(LogUsageCalled([ui EXCEPT !.persisted = TRUE], logged))
                       ELSE Caught(LogUsageCalled([ui EXCEPT !.persisted = TRUE], logged))
                  ELSE Finished([ui EXCEPT !.persisted = TRUE])
    /\ UNCHANGED <<server, reader, chats, relay>>

\* -------------------------------------------------------- the stream relay
\* chunk.text() of one chunk of a Gateway stream
ChunkTexts == {<<>>, <<"a">>, <<" ">>, <<"#">>, <<"\n">>}

\* the events a handler writes: data: {"text": ...}, data:
\* {"groundingMetadata": ...}, data: [DONE], data: {"done": true, "id": ...,
\* "content": ...} and data: {"error": ...}
TextEvent(text) == [type |-> "text", text |-> text, id |-> 0]
\* the event made from the groundingMetadata of chunk number m
GroundingEvent(m) == [type |-> "groundingMetadata", text |-> <<>>, id |-> m]
DoneSentinel == [type |-> "[DONE]", text |-> <<>>, id |-> 0]
DoneEvent(id, content) == [type |-> "done", text |-> content, id |-> id]
ErrorEvent == [type |-> "error", text |-> <<>>, id |-> 0]

\* a transport that puts the newest event in front of the others
WriteFirst(s, e) == [s EXCEPT !.written = <<e>> \o @]

\* a transport whose write throws once the client is gone
WriteThrows(s, e) ==
    IF s.connected THEN [s EXCEPT !.written = Append(@, e)]
    ELSE [s EXCEPT !.threw = TRUE]

\* res.write(`data: ...\n\n`): the event is queued behind the earlier
\* ones; when the client is gone the call returns false, it does not throw
Write(s, e) == [s EXCEPT !.written = Append(@, e)]

\* a statement of a try block: skipped when an earlier one threw
TryWrite(s, e) == IF s.threw THEN s ELSE Write(s, e)

\* res.end()
End(s) == [s EXCEPT !.ended = TRUE, !.pc = "done"]

\* a catch block that also writes the sentinel
CatchDone(s) ==
    End(Write(Write([s EXCEPT !.threw = FALSE], ErrorEvent), DoneSentinel))

\* catch (error) { res.write(error event); res.end(); }  An exception of
\* the write leaves the handler and res.end() is not reached.
Catch(s) ==
    LET w == Write([s EXCEPT !.threw = FALSE], ErrorEvent)
    IN  IF w.threw THEN [w EXCEPT !.escaped = TRUE, !.pc = "done"] ELSE End(w)

\* an await of the try block rejected
Thrown(s, why) == Catch([s EXCEPT !.failure = why])

\* the try block after its writes: on to the next statement, or to catch
Settle(s) == IF s.threw THEN Thrown(s, "write") ELSE s

\* the n unused names the next temporary files get
FreeIds == (1..MaxFiles) \ tmpdir
NewFiles(n) == {i \in FreeIds : Cardinality({j \in FreeIds : j < i}) < n}

Range(f) == {f[i] : i \in DOMAIN f}

\* finally { for (const tempPath of tempFiles) unlink(tempPath) }: runs
\* when the handler is left; chat and streamTranscript have no such block
\* and no tempFiles
Finally(s, dir) == IF s.pc = "done" THEN dir \ Range(s.tempFiles) ELSE dir

\* the server takes one streaming request at a time, until the table
\* transcripts holds MaxRows rows
Ready == sse.pc \in {"idle", "done"} /\ Len(transcripts) < MaxRows

\* POST /api/gemini/chat: upload.array('files', 5) stores the files in
\* os.tmpdir(); chat answers 503 without the AI client, else sets the SSE
\* headers and awaits chat.sendMessageStream
chat(n, available) ==
    /\ Ready
    /\ n <= Cardinality(FreeIds)
    /\ tmpdir' = tmpdir \cup NewFiles(n)
    /\ sse' = LET s == [IdleSse EXCEPT !.route = "chat", !.files = n,
                                       !.stored = NewFiles(n)]
              IN  IF ~available
                  THEN [s EXCEPT !.status = 503, !.ended = TRUE, !.pc = "done",
                                 !.failure = "unavailable"]
                  ELSE [s EXCEPT !.status = 200, !.pc = "open"]
    /\ UNCHANGED <<server, reader, chats, ui, transcripts, parsed, refined>>

\* POST /api/transcript/stream: 503, 400 without audio or mimeType, else
\* writeHead(200) and generateContentStream
streamTranscript(available, body) ==
    /\ Ready
    /\ sse' = LET s == [IdleSse EXCEPT !.route = "streamTranscript"]
              IN  IF ~available
                  THEN [s EXCEPT !.status = 503, !.ended = TRUE, !.pc = "done",
                                 !.failure = "unavailable"]
                  ELSE IF ~body
                  THEN [s EXCEPT !.status = 400, !.ended = TRUE, !.pc = "done",
                                 !.failure = "body"]
                  ELSE [s EXCEPT !.status = 200, !.pc = "open"]
    /\ UNCHANGED <<server, reader, chats, ui, tmpdir, transcripts, parsed, refined>>

\* POST /api/transcript/process (streaming processAudio): the upload
\* middleware keeps the files in memory; 503, 400 without files, else
\* writeHead(200) and the upload loop
processAudio(n, available) ==
    /\ Ready
    /\ n <= Cardinality(FreeIds)
    /\ sse' = LET s == [IdleSse EXCEPT !.route = "processAudio", !.files = n]
              IN  IF ~available
                  THEN [s EXCEPT !.status = 503, !.ended = TRUE, !.pc = "done",
                                 !.failure = "unavailable"]
                  ELSE IF n = 0
                  THEN [s EXCEPT !.status = 400, !.ended = TRUE, !.pc = "done",
                                 !.failure = "files"]
                  ELSE [s EXCEPT !.status = 200, !.pc = "upload"]
    /\ UNCHANGED <<server, reader, chats, ui, tmpdir, transcripts, parsed, refined>>

\* one round of the upload loop: fs.writeFile(tempPath), tempFiles.push,
\* fileManager.uploadFile, uploadedFiles.push
processAudioUpload(wrote, uploaded) ==
    /\ sse.route = "processAudio" /\ sse.pc = "upload"
    /\ FreeIds # {}
    /\ LET f == CHOOSE i \in NewFiles(1) : TRUE
           dir == IF wrote THEN tmpdir \cup {f} ELSE tmpdir
           s == IF ~wrote THEN Thrown(sse, "writeFile")
                ELSE IF ~uploaded
                THEN Thrown([sse EXCEPT !.tempFiles = Append(@, f)], "uploadFile")
                ELSE [sse EXCEPT !.tempFiles = Append(@, f),
                                 !.uploadedFiles = @ + 1,
                                 !.pc = IF sse.uploadedFiles + 1 = sse.files
                                        THEN "waitForFilesActive" ELSE "upload"]
       IN  /\ sse' = s
           /\ tmpdir' = Finally(s, dir)
    /\ UNCHANGED <<server, reader, chats, ui, transcripts, parsed, refined>>

\* waitForFilesActive: getFile of the file at hand answers PROCESSING
\* (sleep 2000 ms and ask again), ACTIVE (next file) or anything else
\* (throw).  The loop has no counter of its own; polls is the number of
\* rounds it made, counted modulo MaxPolls + 1.
FileStates == {"PROCESSING", "ACTIVE", "FAILED"}

\* a wait that takes every state but PROCESSING for readiness
waitUntilProcessed(state) ==
    /\ sse.route = "processAudio" /\ sse.pc = "waitForFilesActive"
    /\ sse' = IF state = "PROCESSING"
              THEN [sse EXCEPT !.polls = (@ + 1) % (MaxPolls + 1)]
              ELSE [sse EXCEPT !.activeFiles = IF state = "ACTIVE" THEN @ + 1 ELSE @,
                               !.failure = IF state = "ACTIVE" THEN @
                                           ELSE "waitForFilesActive",
                               !.pc = "open"]
    /\ UNCHANGED <<server, reader, chats, ui, tmpdir, transcripts, parsed, refined>>

waitForFilesActive(state) ==
    /\ sse.route = "processAudio" /\ sse.pc = "waitForFilesActive"
    /\ LET s == IF state = "PROCESSING"
                THEN [sse EXCEPT !.polls = (@ + 1) % (MaxPolls + 1)]
                ELSE IF state = "ACTIVE"
                THEN [sse EXCEPT !.activeFiles = @ + 1,
                                 !.pc = IF sse.activeFiles + 1 = sse.uploadedFiles
                                        THEN "open" ELSE "waitForFilesActive"]
                ELSE Thrown(sse, "waitForFilesActive")
       IN  /\ sse' = s
           /\ tmpdir' = Finally(s, tmpdir)
    /\ UNCHANGED <<server, reader, chats, ui, transcripts, parsed, refined>>

\* await chat.sendMessageStream(parts) / generateContentStream(...): the
\* Gateway opens the stream or rejects
openStream(ok) ==
    /\ sse.pc = "open"
    /\ LET s == IF ok THEN [sse EXCEPT !.pc = "stream"] ELSE Thrown(sse, "gateway")
       IN  /\ sse' = s
           /\ tmpdir' = Finally(s, tmpdir)
    /\ UNCHANGED <<server, reader, chats, ui, transcripts, parsed, refined>>

\* a handler that keeps the first groundingMetadata it sees
RetainFirst(aggregated, metadata) ==
    IF aggregated # 0 THEN aggregated ELSE metadata

\* if (metadata) aggregatedGroundingMetadata = metadata
Retain(aggregated, metadata) ==
    IF metadata # 0 THEN metadata ELSE aggregated

\* one round of for await (const chunk of result.stream): a text event if
\* chunk.text() is not empty; processAudio also adds the text to fullText,
\* chat remembers the chunk's groundingMetadata
streamChunk(text, metadata) ==
    /\ sse.pc = "stream"
    /\ Len(sse.received) < MaxChunks
    /\ metadata => sse.route = "chat"
    /\ LET k == Len(sse.received) + 1
           got == [sse EXCEPT !.received = Append(@, text),
                              !.carried = IF metadata THEN @ \cup {k} ELSE @,
                              !.fullText = IF sse.route = "processAudio" /\ Len(text) > 0
                                           THEN @ \o text ELSE @]
           sent == IF Len(text) > 0 THEN TryWrite(got, TextEvent(text)) ELSE got
           s == Settle(IF sent.threw THEN sent
                       ELSE [sent EXCEPT !.metadata =
                                Retain(@, IF metadata THEN k ELSE 0)])
       IN  /\ sse' = s
           /\ tmpdir' = Finally(s, tmpdir)
    /\ UNCHANGED <<server, reader, chats, ui, transcripts, parsed, refined>>

\* the Gateway stream rejects instead of yielding the next chunk
streamFails ==
    /\ sse.pc = "stream"
    /\ LET s == Thrown(sse, "gateway")
       IN  /\ sse' = s
           /\ tmpdir' = Finally(s, tmpdir)
    /\ UNCHANGED <<server, reader, chats, ui, transcripts, parsed, refined>>

\* chat after the loop: the groundingMetadata event if metadata was seen,
\* data: [DONE], res.end()
chatEnds ==
    /\ sse.route = "chat" /\ sse.pc = "stream"
    /\ LET grounded == IF sse.metadata # 0
                       THEN TryWrite(sse, GroundingEvent(sse.metadata)) ELSE sse
           s == Settle(TryWrite(grounded, DoneSentinel))
       IN  sse' = IF s.pc = "done" THEN s ELSE End(s)
    /\ UNCHANGED <<server, reader, chats, ui, tmpdir, transcripts, parsed, refined>>

\* streamTranscript after the loop: data: [DONE], res.end()
streamTranscriptEnds ==
    /\ sse.route = "streamTranscript" /\ sse.pc = "stream"
    /\ LET s == Settle(TryWrite(sse, DoneSentinel))
       IN  sse' = IF s.pc = "done" THEN s ELSE End(s)
    /\ UNCHANGED <<server, reader, chats, ui, tmpdir, transcripts, parsed, refined>>

\* processAudio after the loop: the first line is the keywords line if it
\* starts with '#', the content is the rest without one blank line after
\* the keywords, trimmed
KeywordsLine(lines) ==
    IF Len(lines[1]) > 0 /\ lines[1][1] = "#" THEN lines[1] ELSE <<>>

ContentStartIndex(lines) ==
    IF KeywordsLine(lines) # <<>>
    THEN (IF Len(lines) >= 2 /\ Trim(lines[2]) = <<>> THEN 2 ELSE 1)
    ELSE 0

Content(fullText) ==
    Trim(Join(SliceFrom(Split(fullText), ContentStartIndex(Split(fullText)))))

processAudioEnds ==
    /\ sse.route = "processAudio" /\ sse.pc = "stream"
    /\ sse' = [sse EXCEPT !.pc = "insert"]
    /\ UNCHANGED <<server, reader, chats, ui, tmpdir, transcripts, parsed, refined>>

\* a handler that announces the transcript before it is stored
FinalizeEarly(s, ok, id) ==
    LET w == TryWrite(s, DoneEvent(id, Content(s.fullText)))
    IN  IF ~ok THEN Thrown(w, "insert") ELSE Settle(w)

\* await pool.query(INSERT INTO transcripts ...), then the done event
Finalize(s, ok, id) ==
    IF ~ok THEN Thrown(s, "insert")
    ELSE Settle(TryWrite(s, DoneEvent(id, Content(s.fullText))))

\* the INSERT resolves or rejects; then the done event and res.end(), or
\* the catch block; then the finally block
processAudioInsert(ok) ==
    /\ sse.route = "processAudio" /\ sse.pc = "insert"
    /\ LET id == Len(transcripts) + 1
           f == Finalize(sse, ok, id)
           s == IF f.pc = "done" THEN f ELSE End(f)
       IN  /\ sse' = s
           /\ tmpdir' = Finally(s, tmpdir)
           /\ transcripts' = IF ok
                             THEN Append(transcripts,
                                     [id |-> id, content |-> Content(sse.fullText),
                                      original_content |-> Content(sse.fullText)])
                             ELSE transcripts
    /\ UNCHANGED <<server, reader, chats, ui, parsed, refined>>

\* the client goes away while the response is open
disconnect ==
    /\ sse.status = 200 /\ sse.pc \notin {"idle", "done"}
    /\ sse.connected
    /\ sse' = [sse EXCEPT !.connected = FALSE]
    /\ UNCHANGED <<server, reader, chats, ui, tmpdir, transcripts, parsed, refined>>

\* ------------------------------------------------------ the stream reader
\* JSON.stringify of a string, without the quotes: a line break is
\* written as the two characters \ and n
RECURSIVE Escape(_)
Escape(text) ==
    IF Len(text) = 0 THEN <<>>
    ELSE (IF Head(text) = "\n" THEN <<"\\", "n">> ELSE <<Head(text)>>)
            \o Escape(Tail(text))

\* the characters between the quotes of a JSON string, read back; a line
\* break between the quotes is a SyntaxError
RECURSIVE Unescape(_)
Unescape(s) ==
    IF Len(s) = 0 THEN <<>>
    ELSE IF Head(s) = "\\" /\ Len(s) >= 2 /\ s[2] = "n"
    THEN <<"\n">> \o Unescape(SubSeq(s, 3, Len(s)))
    ELSE <<Head(s)>> \o Unescape(Tail(s))

\* the text after data: of each event: JSON.stringify({ text: chunkText }),
\* JSON.stringify({ error: ... }), [DONE]
TextOpen == <<"{", "\"", "t", "e", "x", "t", "\"", ":", "\"">>
TextClose == <<"\"", "}">>
ErrorData == <<"{", "\"", "e", "r", "r", "o", "r", "\"", ":", "\"", "e", "\"", "}">>
DoneData == <<"[", "D", "O", "N", "E", "]">>
DataPrefix == <<"d", "a", "t", "a", ":", " ">>

Data(e) ==
    IF e.type = "text" THEN TextOpen \o Escape(e.text) \o TextClose
    ELSE IF e.type = "error" THEN ErrorData
    ELSE DoneData

\* the bytes of the response: `data: ${...}\n\n` for each event written
RECURSIVE Bytes(_)
Bytes(events) ==
    IF Len(events) = 0 THEN <<>>
    ELSE DataPrefix \o Data(Head(events)) \o <<"\n", "\n">> \o Bytes(Tail(events))

\* buffer.split('\n\n'): the pieces between the blank lines.  The blank
\* lines are found from the left and do not overlap: in a run of line
\* breaks they begin at its first, third, ... character.
SplitBlank(s) ==
    LET Breaks(i, j) == \A k \in i..j : s[k] = "\n"
        RunStart(i) == CHOOSE j \in 1..i :
                          Breaks(j, i) /\ (j = 1 \/ s[j - 1] # "\n")
        found == {i \in 1..(Len(s) - 1) :
                     Breaks(i, i + 1) /\ (i - RunStart(i)) % 2 = 0}
        at(k) == CHOOSE i \in found : Cardinality({j \in found : j < i}) = k - 1
    IN  [k \in 1..(Cardinality(found) + 1) |->
            SubSeq(s, IF k = 1 THEN 1 ELSE at(k - 1) + 2,
                      IF k = Cardinality(found) + 1 THEN Len(s) ELSE at(k) - 1)]

\* a reader that forgets the incomplete event at the end of a read
Forgotten(pieces) == <<>>

\* buffer = lines.pop() || ''
Pop(pieces) == pieces[Len(pieces)]

\* line.startsWith(prefix)
StartsWith(line, prefix) ==
    Len(prefix) <= Len(line) /\ SubSeq(line, 1, Len(prefix)) = prefix

\* try { yield JSON.parse(data) } catch (e) { console.error(...) }: the
\* value yielded, if data is JSON
Parsed(data) ==
    LET inner == SubSeq(data, Len(TextOpen) + 1, Len(data) - Len(TextClose))
    IN  IF data = ErrorData THEN <<ErrorEvent>>
        ELSE IF /\ Len(data) >= Len(TextOpen) + Len(TextClose)
                /\ StartsWith(data, TextOpen)
                /\ SubSeq(data, Len(data) - Len(TextClose) + 1, Len(data)) = TextClose
                /\ \A i \in DOMAIN inner : inner[i] \notin {"\n", "\""}
        THEN <<TextEvent(Unescape(inner))>>
        ELSE <<>>

\* for (const line of lines): what is yielded, and whether [DONE] made
\* the generator return
RECURSIVE Yields(_)
Yields(lines) ==
    IF Len(lines) = 0 THEN [yielded |-> <<>>, returned |-> FALSE]
    ELSE IF ~StartsWith(Head(lines), DataPrefix) THEN Yields(Tail(lines))
    ELSE LET data == SliceFrom(Head(lines), Len(DataPrefix))
         IN  IF data = DoneData THEN [yielded |-> <<>>, returned |-> TRUE]
             ELSE [Yields(Tail(lines)) EXCEPT !.yielded = Parsed(data) \o @]

\* streamRequest up to the loop: fetch; a response that is not ok throws,
\* else the body is read
streamRequest(ok, events) ==
    /\ reader.pc = "idle"
    /\ reader' = IF ~ok THEN [IdleReader EXCEPT !.pc = "threw"]
                 ELSE [IdleReader EXCEPT !.pc = "read", !.sent = events,
                                         !.rest = Bytes(events)]
    /\ UNCHANGED <<server, chats, ui, relay>>

\* one round of while (true): reader.read() hands out the next n bytes,
\* or done when the response is at its end; the bytes are added to the
\* buffer, the buffer is split, its last piece kept and the others gone
\* through
readerRead(n) ==
    /\ reader.pc = "read"
    /\ n \in 0..Len(reader.rest)
    /\ n = 0 <=> reader.rest = <<>>
    /\ reader' =
          IF n = 0 THEN [reader EXCEPT !.pc = "ended"]
          ELSE LET buffer == reader.buffer \o SubSeq(reader.rest, 1, n)
                   pieces == SplitBlank(buffer)
                   y == Yields(SubSeq(pieces, 1, Len(pieces) - 1))
               IN  [reader EXCEPT !.rest = SubSeq(@, n + 1, Len(@)),
                                  !.buffer = Pop(pieces),
                                  !.held = reader.buffer # <<>>,
                                  !.yielded = @ \o y.yielded,
                                  !.pc = IF y.returned THEN "returned" ELSE "read"]
    /\ UNCHANGED <<server, chats, ui, relay>>

\* ------------------------------------------------------- refineTranscript
\* req.body.refinementType: the two the handler knows, one it does not,
\* and none
RefinementTypes == {"organize", "formalize", "summarize", ""}

\* a handler that refines what the transcript shows now
CurrentContent(row) == row.content

\* rows[0].original_content || rows[0].content of a row selected with its
\* original_content and keywords only
OriginalText(row) == row.original_content

\* response.text() for the prompt of the type with the text under it: the
\* text, marked with the treatment it was given
RefinedText(type, text) ==
    IF type = "organize" THEN <<"o">> \o text ELSE <<"f">> \o text

\* a handler that has a prompt for one type only
OnlyOrganize(type) == type = "organize"

\* if (refinementType === 'organize') ... else if (refinementType ===
\* 'formalize') ... else 400
KnownType(type) == type \in {"organize", "formalize"}

\* refineTranscript: 503 without a Gateway, 400 without a type, 404 when
\* the caller has no such transcript, 400 when it has no text or the type
\* is unknown, 500 when generateContent or the UPDATE rejects, else the
\* transcript's content is set to the answer and the answer returned
refineTranscript(id, type, available, own, answered, updated) ==
    /\ Len(refined.done) < MaxRefines
    /\ LET found == own /\ id \in DOMAIN transcripts
           originalText == IF found THEN OriginalText(transcripts[id]) ELSE <<>>
           status == IF ~available THEN 503
                     ELSE IF type = "" THEN 400
                     ELSE IF ~found THEN 404
                     ELSE IF originalText = <<>> THEN 400
                     ELSE IF ~KnownType(type) THEN 400
                     ELSE IF ~answered \/ ~updated THEN 500
                     ELSE 200
           prompted == found /\ originalText # <<>> /\ KnownType(type) /\ available
           refinedText == IF prompted /\ answered
                          THEN RefinedText(type, originalText) ELSE <<>>
       IN  /\ refined' = [id |-> id, type |-> type, available |-> available,
                          found |-> available /\ type # "" /\ found,
                          status |-> status,
                          originalText |-> IF prompted THEN originalText ELSE <<>>,
                          refinedText |-> refinedText,
                          done |-> IF status = 200 THEN Append(refined.done, type)
                                   ELSE refined.done]
           /\ transcripts' = IF status = 200
                             THEN [transcripts EXCEPT ![id].content = refinedText]
                             ELSE transcripts
    /\ UNCHANGED <<server, reader, chats, ui, sse, tmpdir, parsed>>

\* migrate: ALTER TABLE transcripts ADD COLUMN original_content, run once on
\* a table that was filled before the column existed: the rows it held
\* get NULL (here <<>>) in the new column and keep their content
migrate(contents) ==
    /\ transcripts = <<>> /\ sse.pc = "idle" /\ refined = NoRefine
    /\ Len(contents) \in 1..MaxRows
    /\ transcripts' = [k \in DOMAIN contents |->
                          [id |-> k, content |-> contents[k],
                           original_content |-> <<>>]]
    /\ UNCHANGED <<server, reader, chats, ui, sse, tmpdir, parsed, refined>>

\* ---------------------------------------------------------------- research
\* the flag /i: letters are compared by their upper-case form
UpperOf ==
    LET Lower == <<"a", "b", "c", "d", "e", "f", "g", "h", "i", "j", "k", "l", "m",
                   "n", "o", "p", "q", "r", "s", "t", "u", "v", "w", "x", "y", "z">>
        Upper == <<"A", "B", "C", "D", "E", "F", "G", "H", "I", "J", "K", "L", "M",
                   "N", "O", "P", "Q", "R", "S", "T", "U", "V", "W", "X", "Y", "Z">>
    IN  [c \in {Lower[i] : i \in DOMAIN Lower} |->
            Upper[CHOOSE i \in DOMAIN Lower : Lower[i] = c]]

ToUpper(c) == IF c \in DOMAIN UpperOf THEN UpperOf[c] ELSE c

FoldCase(s) == [i \in DOMAIN s |-> ToUpper(s[i])]

\* the labels the two patterns look for
FactsLabel == <<"F", "A", "C", "T", "S", ":">>

PromptLabel == <<"I", "M", "A", "G", "E", "_", "P", "R", "O", "M", "P", "T", ":">>

\* where a pattern that starts with the label first matches in s, letter
\* case ignored; 0 when it matches nowhere
IndexOf(s, label) ==
    LET folded == FoldCase(s)
        hits == {i \in 1..(Len(s) - Len(label) + 1) :
                    SubSeq(folded, i, i + Len(label) - 1) = label}
    IN  IF hits = {} THEN 0 ELSE CHOOSE i \in hits : \A j \in hits : i <= j

\* what match() returns: null, or an array whose [1] is the captured group
Null == [t |-> "null"]
Captured(group) == [t |-> "match", v |-> group]

\* a parser that takes an answer without the label to be facts throughout
WholeText(text) == Captured(text)

\* text.match(/FACTS:\s*([\s\S]*?)(?=IMAGE_PROMPT:|$)/i): from the first
\* FACTS:, white space skipped, up to the first IMAGE_PROMPT: after it or
\* else to the end of the text
FactsMatch(text) ==
    LET at == IndexOf(text, FactsLabel)
        rest == TrimStart(SubSeq(text, at + Len(FactsLabel), Len(text)))
        stop == IndexOf(rest, PromptLabel)
    IN  IF at = 0 THEN Null
        ELSE Captured(IF stop = 0 THEN rest ELSE SubSeq(rest, 1, stop - 1))

\* text.match(/IMAGE_PROMPT:\s*([\s\S]*?)$/i): from the first
\* IMAGE_PROMPT:, white space skipped, to the end of the text
PromptMatch(text) ==
    LET at == IndexOf(text, PromptLabel)
    IN  IF at = 0 THEN Null
        ELSE Captured(TrimStart(SubSeq(text, at + Len(PromptLabel), Len(text))))

\* the lines a FACTS section is made of
FactLines == {<<>>, <<" ">>, <<"-">>, <<"-", " ", "a">>, <<"-", "b">>,
              <<" ", "-", " ", "c">>, <<"d">>}

MaxFacts == 3

\* f.replace(/^-\s*/, ''): a dash at the very start of the line and the
\* white space after it
StripMarker(f) == IF Len(f) > 0 /\ Head(f) = "-" THEN TrimStart(Tail(f)) ELSE f

\* a.slice(0, n)
Slice(a, n) == SubSeq(a, 1, Min(n, Len(a)))

\* factsRaw = section.trim(); facts = factsRaw.split('\n')
\*     .map(f => f.replace(/^-\s*/, '').trim())
\*     .filter(f => f.length > 0).slice(0, 3)
Facts(section) ==
    LET raw == Split(Trim(section))
        mapped == [i \in DOMAIN raw |-> Trim(StripMarker(raw[i]))]
    IN  Slice(SelectSeq(mapped, LAMBDA f : Len(f) > 0), MaxFacts)

\* factsMatch ? factsMatch[1] : ""
FactsSection(text) ==
    LET factsMatch == FactsMatch(text)
    IN  IF factsMatch = Null THEN <<>> ELSE factsMatch.v

\* what the browser sends: the topic typed, the language and the aspect
\* ratio chosen; level and style are left at a value the two switch
\* statements have no case for
Requests ==
    [topic : {<<"4", "2">>, <<"7">>},
     language : {<<"E", "n", "g", "l", "i", "s", "h">>, <<"T", "h", "a", "i">>},
     aspectRatio : {<<"1", "6", ":", "9">>, <<"1", ":", "1">>}]

\* getLevelInstruction(level), default case
getLevelInstruction ==
    <<"T", "a", "r", "g", "e", "t", " ", "A", "u", "d", "i", "e", "n", "c",
      "e", ":", " ", "G", "e", "n", "e", "r", "a", "l", " ", "P", "u", "b",
      "l", "i", "c", ".", " ", "S", "t", "y", "l", "e", ":", " ", "C", "l",
      "e", "a", "r", " ", "a", "n", "d", " ", "e", "n", "g", "a", "g", "i",
      "n", "g", ".">>

\* getStyleInstruction(style), default case
getStyleInstruction ==
    <<"A", "e", "s", "t", "h", "e", "t", "i", "c", ":", " ", "H", "i", "g",
      "h", "-", "q", "u", "a", "l", "i", "t", "y", " ", "d", "i", "g", "i",
      "t", "a", "l", " ", "s", "c", "i", "e", "n", "t", "i", "f", "i", "c",
      " ", "i", "l", "l", "u", "s", "t", "r", "a", "t", "i", "o", "n", ".",
      " ", "C", "l", "e", "a", "n", ",", " ", "m", "o", "d", "e", "r", "n",
      ",", " ", "h", "i", "g", "h", "l", "y", " ", "d", "e", "t", "a", "i",
      "l", "e", "d", ".">>

\* a fallback that says nothing of the request
GenericPrompt(req) == getLevelInstruction \o <<" ">> \o getStyleInstruction

\* `Create a detailed infographic about ${topic}. ${levelInstr}
\* ${styleInstr}. Layout: ${aspectRatio}. Important: All text labels inside
\* the image must be in ${language}.`
DefaultPrompt(req) ==
    LET About ==
            <<"C", "r", "e", "a", "t", "e", " ", "a", " ", "d", "e", "t",
              "a", "i", "l", "e", "d", " ", "i", "n", "f", "o", "g", "r",
              "a", "p", "h", "i", "c", " ", "a", "b", "o", "u", "t", " ">>
        Layout == <<".", " ", "L", "a", "y", "o", "u", "t", ":", " ">>
        Language ==
            <<".", " ", "I", "m", "p", "o", "r", "t", "a", "n", "t", ":",
              " ", "A", "l", "l", " ", "t", "e", "x", "t", " ", "l", "a",
              "b", "e", "l", "s", " ", "i", "n", "s", "i", "d", "e", " ",
              "t", "h", "e", " ", "i", "m", "a", "g", "e", " ", "m", "u",
              "s", "t", " ", "b", "e", " ", "i", "n", " ">>
    IN  Concat(<<About, req.topic, <<".", " ">>, getLevelInstruction, <<" ">>,
                 getStyleInstruction, Layout, req.aspectRatio, Language,
                 req.language, <<".">>  >>)

\* promptMatch ? promptMatch[1].trim() : the default prompt
ImagePrompt(req, text) ==
    LET promptMatch == PromptMatch(text)
    IN  IF promptMatch = Null THEN DefaultPrompt(req) ELSE Trim(promptMatch.v)

\* groundingChunks: the web.uri and web.title of each, "" where the chunk
\* has none (or has no web at all)
GroundingChunks == [uri : {"", "u1", "u2"}, title : {"", "t1", "t2"}]

\* chunks.forEach(chunk => { if (chunk.web?.uri && chunk.web?.title)
\*     searchResults.push({ title, url }) })
SearchResults(chunks) ==
    LET kept == SelectSeq(chunks, LAMBDA c : c.uri # "" /\ c.title # "")
    IN  [i \in DOMAIN kept |-> [title |-> kept[i].title, url |-> kept[i].uri]]

\* a response that lists every result pushed
NotDeduplicated(results) == results

\* Array.from(new Map(searchResults.map(item => [item.url, item])).values()):
\* one entry per url, in the order the urls first appear, each the item
\* set last for its url
UniqueResults(results) ==
    LET First(i) == \A j \in 1..(i - 1) : results[j].url # results[i].url
        LastOf(i) == CHOOSE j \in DOMAIN results :
                        /\ results[j].url = results[i].url
                        /\ \A k \in DOMAIN results :
                              results[k].url = results[i].url => k <= j
        keys == SelectSeq([i \in DOMAIN results |-> i], First)
    IN  [n \in DOMAIN keys |-> results[LastOf(keys[n])]]

\* what the Gateway does with the research prompt: it is not configured,
\* generateContent throws, or it answers with a text, grounding chunks
\* and a token count
Answer(text, chunks, tc) ==
    [outcome |-> "answered", text |-> text, chunks |-> chunks, usage |-> tc]
NoAnswer(outcome) ==
    [outcome |-> outcome, text |-> <<>>, chunks |-> <<>>, usage |-> Undefined]

\* research: 503 without a Gateway, 500 from the catch block, else the
\* parsed answer
research(req, answer) ==
    /\ parsed = NoParse
    /\ parsed' =
         IF answer.outcome = "unavailable"
         THEN [NoParse EXCEPT !.status = 503, !.req = req,
                              !.outcome = answer.outcome]
         ELSE IF answer.outcome = "failed"
         THEN [NoParse EXCEPT !.status = 500, !.req = req,
                              !.outcome = answer.outcome]
         ELSE [status |-> 200, outcome |-> answer.outcome, req |-> req,
               text |-> answer.text,
               chunks |-> answer.chunks,
               imagePrompt |-> ImagePrompt(req, answer.text),
               facts |-> Facts(FactsSection(answer.text)),
               searchResults |-> UniqueResults(SearchResults(answer.chunks)),
               usage |-> OrZero(answer.usage)]
    /\ UNCHANGED <<server, reader, chats, ui, sse, tmpdir, transcripts, refined>>

\* ---------------------------------------------------------- specifications
\* The program is checked under several kinds of traffic.  Each specification
\* starts from Init and runs whole handlers; they differ in the routes that
\* receive requests.

\* Ledger traffic: debits, balance edits and account removal, no clock.
Next ==
    \/ \E name \in Usernames : login(name, TRUE)
    \/ \E h \in Headers, f \in Features, tc \in TokenCounts : logUsageMock(h, f, tc)
    \/ \E r \in Reqs, h \in Headers, f \in Features, tc \in TokenCounts :
            logUsageInsert(r, h, f, tc)
    \/ \E r \in Reqs : logUsageUpdate(r)
    \/ \E r \in Reqs : logUsageCommit(r)
    \/ \E r \in Reqs : txFail(r)
    \/ \E r \in Reqs, h \in Headers, id \in UserIds,
          expiration \in ExpirationInputs, tokens \in TokenInputs :
            updateUserSelect(r, h, id, TRUE, expiration, tokens)
    \/ \E r \in Reqs : updateUserWrite(r)
    \/ \E r \in Reqs : updateUserCommit(r)
    \/ \E r \in Reqs : updateUserGone(r)
    \/ \E h \in Headers, id \in UserIds : deleteUser(h, id)
    \/ \E h \in Headers, name \in Usernames : createUser(h, name, "user")

Spec == Init /\ [][Next]_vars

\* Debit traffic: nothing but logUsage requests, on every connection.
DebitAmounts == {Num(1), Num(2)}

NextDebit ==
    \/ \E name \in Usernames : login(name, TRUE)
    \/ \E h \in Headers, f \in Features, tc \in DebitAmounts : logUsageMock(h, f, tc)
    \/ \E r \in Reqs, h \in Headers, f \in Features, tc \in DebitAmounts :
            logUsageInsert(r, h, f, tc)
    \/ \E r \in Reqs : logUsageUpdate(r)
    \/ \E r \in Reqs : logUsageCommit(r)
    \/ \E r \in Reqs : txFail(r)

SpecDebit == Init /\ [][NextDebit]_vars

\* Any counts: logUsage requests with whatever tokenCount a browser can
\* put into the body (none, zero, a positive or a negative number), by
\* the admin and by the accounts the admin created.
SentCounts == {Undefined, Num(0), Num(2), Num(0 - 2)}

NextCounts ==
    \/ \E name \in Usernames : login(name, TRUE)
    \/ \E h \in Headers, name \in Usernames : createUser(h, name, "user")
    \/ \E h \in Headers, f \in Features, tc \in SentCounts : logUsageMock(h, f, tc)
    \/ \E r \in Reqs, h \in Headers, f \in Features, tc \in SentCounts :
            logUsageInsert(r, h, f, tc)
    \/ \E r \in Reqs : logUsageUpdate(r)
    \/ \E r \in Reqs : logUsageCommit(r)

SpecCounts == Init /\ [][NextCounts]_vars

\* Ledger, one request after the other: debits and the admin's edits of a
\* balance, to the default value or to one token less, each answered
\* before the next is received.
Quiet == \A r \in Reqs : tx[r].pc = "idle"

NextLedger ==
    \/ \E name \in Usernames : login(name, TRUE)
    \/ \E h \in Headers, name \in Usernames : createUser(h, name, "user")
    \/ /\ Quiet
       /\ \E h \in Headers, f \in Features : logUsageInsert(1, h, f, Num(2))
    \/ logUsageUpdate(1)
    \/ logUsageCommit(1)
    \/ /\ Quiet
       /\ \E h \in Headers, id \in UserIds, expiration \in ExpirationInputs,
             tokens \in {DefaultTokens, DefaultTokens - 1} :
               updateUserSelect(1, h, id, TRUE, expiration, tokens)
    \/ updateUserWrite(1)
    \/ updateUserCommit(1)

SpecLedger == Init /\ [][NextLedger]_vars

\* Chat traffic: the admin and the accounts it created keep sessions and
\* messages, under ids and times of their choosing.
NextChats ==
    \/ \E name \in Usernames : login(name, TRUE)
    \/ \E h \in Headers, name \in Usernames : createUser(h, name, "user")
    \/ \E h \in Headers, id \in 1..MaxSessions : createSession(h, id, 1)
    \/ \E h \in Headers, id \in 1..MaxSessions : updateSession(h, id, "b")
    \/ \E h \in Headers, id \in 1..MaxSessions : deleteSession(h, id)
    \/ \E h \in Headers, id \in 1..MaxSessions : saveMessage(h, id, "m", 2)
    \/ \E h \in Headers, id \in 1..MaxSessions : getMessages(h, id)

SpecChats == Init /\ [][NextChats]_vars

\* History traffic: debits of two accounts while the clock runs, and reads.
NextHistory ==
    \/ Tick
    \/ \E name \in Usernames : login(name, TRUE)
    \/ \E h \in Headers, name \in Usernames : createUser(h, name, "user")
    \/ \E h \in Headers, f \in Features : logUsageMock(h, f, Num(2))
    \/ \E r \in Reqs, h \in Headers, f \in Features : logUsageInsert(r, h, f, Num(2))
    \/ \E r \in Reqs : logUsageUpdate(r)
    \/ \E r \in Reqs : logUsageCommit(r)
    \/ \E h \in Headers, period \in Periods, page \in Pages : getMyUsage(h, period, page)

SpecHistory == Init /\ [][NextHistory]_vars

\* Boundary traffic: accounts, credentials and the clock; every
\* authenticated route is tried with every header; one admin connection.
NextAuth ==
    \/ Tick
    \/ \E name \in Usernames : register(name)
    \/ \E name \in Usernames, pwOk \in BOOLEAN : login(name, pwOk)
    \/ \E h \in Headers, op \in AuthedOps : AuthReject(h, op)
    \/ \E h \in Headers, op \in AdminOps : adminForbidden(h, op)
    \/ \E h \in Headers, id \in UserIds, approved \in BOOLEAN,
          expiration \in ExpirationInputs, tokens \in TokenInputs :
            updateUserSelect(1, h, id, approved, expiration, tokens)
    \/ \E r \in Reqs : updateUserWrite(r)
    \/ \E r \in Reqs : updateUserCommit(r)
    \/ \E r \in Reqs : updateUserGone(r)
    \/ \E r \in Reqs : txFail(r)
    \/ \E h \in Headers, id \in UserIds : deleteUser(h, id)
    \/ \E h \in Headers, op \in {"research", "chat"}, files \in 0..1,
          outcome \in {"unavailable", "ok", "error"} : gemini(h, op, files, outcome)

SpecAuth == Init /\ [][NextAuth]_vars

\* Relay traffic: one streaming request at a time on the chat, stream and
\* process routes, with every answer the Gateway, the file API, the file
\* system and the database can give, and a client that may leave.
HandlerStep ==
    \/ \E wrote \in BOOLEAN, uploaded \in BOOLEAN : processAudioUpload(wrote, uploaded)
    \/ \E state \in FileStates : waitForFilesActive(state)
    \/ \E ok \in BOOLEAN : openStream(ok)
    \/ \E text \in ChunkTexts, metadata \in BOOLEAN : streamChunk(text, metadata)
    \/ streamFails
    \/ chatEnds
    \/ streamTranscriptEnds
    \/ processAudioEnds
    \/ \E ok \in BOOLEAN : processAudioInsert(ok)

NextRelay ==
    \/ \E n \in 0..1, available \in BOOLEAN : chat(n, available)
    \/ \E available \in BOOLEAN, body \in BOOLEAN : streamTranscript(available, body)
    \/ \E n \in 0..MaxFiles, available \in BOOLEAN : processAudio(n, available)
    \/ HandlerStep
    \/ disconnect

SpecRelay == Init /\ [][NextRelay]_vars

\* The event loop runs every continuation that is ready: a handler that
\* can take a step takes one.
SpecRelayLive == SpecRelay /\ WF_vars(HandlerStep)

\* Research answers: one request, answered with FACTS: and any section of
\* up to MaxLines lines under it.
RECURSIVE SeqsUpTo(_, _)
SeqsUpTo(S, n) == IF n = 0 THEN {<<>>} ELSE SeqsUpTo(S, n - 1) \cup [1..n -> S]

FactsAnswers(n) ==
    {Answer(Concat(<<FactsLabel, <<"\n">>, Join(lines)>>), <<>>, Num(1)) :
        lines \in SeqsUpTo(FactLines, n)}

NextResearch ==
    /\ parsed = NoParse
    /\ \E answer \in FactsAnswers(MaxLines) :
          research(CHOOSE req \in Requests : TRUE, answer)

SpecResearch == Init /\ [][NextResearch]_vars

\* Transcripts: a recording is transcribed and stored, or the INSERT
\* fails; while no transcription is running, its owner or somebody else
\* asks for refinements of it, of any type, in any order; at most one
\* thing goes wrong with a refine request.
NextRefine ==
    \/ processAudio(1, TRUE)
    \/ processAudioUpload(TRUE, TRUE)
    \/ waitForFilesActive("ACTIVE")
    \/ openStream(TRUE)
    \/ streamChunk(<<"a">>, FALSE)
    \/ processAudioEnds
    \/ \E ok \in BOOLEAN : processAudioInsert(ok)
    \/ /\ sse.pc \in {"idle", "done"}
       /\ \E id \in 1..(MaxRows + 1), type \in RefinementTypes,
             o \in {f \in [1..4 -> BOOLEAN] : Cardinality({i \in 1..4 : ~f[i]}) <= 1} :
               refineTranscript(id, type, o[1], o[2], o[3], o[4])

SpecRefine == Init /\ [][NextRefine]_vars

\* Transcripts, on a server whose table may have been migrated with rows
\* in it.
NextMigrated ==
    \/ \E contents \in SeqsUpTo({<<"a">>, <<"a", "\n", "a">>}, MaxRows) : migrate(contents)
    \/ NextRefine

SpecMigrated == Init /\ [][NextMigrated]_vars

\* the texts of the chunks of a chat answer
EventTexts == {<<"a">>, <<"\n", "\n">>}

\* what chat writes: text events, then data: [DONE], or an error event
\* where the stream failed
ChatStreams(n) ==
    {[i \in DOMAIN texts |-> TextEvent(texts[i])] \o <<final>> :
        texts \in SeqsUpTo(EventTexts, n), final \in {DoneSentinel, ErrorEvent}}

\* Streamed answers: the browser asks for a chat answer of up to MaxEvents
\* chunks and reads the response in reads of any sizes.
NextReader ==
    \/ /\ reader.pc = "idle"
       /\ \E ok \in BOOLEAN, events \in ChatStreams(MaxEvents) : streamRequest(ok, events)
    \/ \E n \in 0..Len(reader.rest) : readerRead(n)

SpecReader == Init /\ [][NextReader]_vars

\* Infographic requests: the browser asks for research once; the Gateway
\* is missing, fails, or answers with a text put together from labels in
\* either letter case, a fact line and a prompt, in any order, with any
\* token count and any grounding chunks; the browser then takes the
\* response.
Parts == {FactsLabel, <<"f", "a", "c", "t", "s", ":">>, PromptLabel,
          <<"I", "m", "a", "g", "e", "_", "P", "r", "o", "m", "p", "t", ":">>,
          <<"\n", "-", " ", "a", "\n">>, <<"p">>}

Texts(n) == {Concat(parts) : parts \in SeqsUpTo(Parts, n)}

Exchanges(n, m) ==
    {[req |-> CHOOSE req \in Requests : TRUE, answer |-> Answer(text, <<>>, Num(1))] :
        text \in Texts(n)}
    \cup {[req |-> req, answer |-> Answer(text, <<>>, tc)] :
            req \in Requests, tc \in TokenCounts,
            text \in {<<>>, FactsLabel \o <<"d">>, PromptLabel \o <<"p">>}}
    \cup {[req |-> CHOOSE req \in Requests : TRUE, answer |-> Answer(<<>>, chunks, Num(1))] :
            chunks \in SeqsUpTo(GroundingChunks, m)}
    \cup {[req |-> req, answer |-> NoAnswer(outcome)] :
            req \in Requests, outcome \in {"unavailable", "failed"}}

NextAnswers ==
    \/ parsed = NoParse /\ handleGenerate
    \/ /\ ui.pc = "research" /\ parsed = NoParse
       /\ \E ex \in Exchanges(MaxParts, MaxGrounding) :
             research(ex.req, ex.answer)
    \/ /\ parsed # NoParse
       /\ handleGenerateResearch(ResearchResponse(parsed))

SpecAnswers == Init /\ [][NextAnswers]_vars

\* ================================================================ properties
\* the rows of one account, in table order
RowsOf(logs, id) == SelectSeq(logs, LAMBDA l : l.user_id = id)

\* the record a step appended to a table, if it appended one
Appended(logs, logs2) ==
    IF Len(logs2) = Len(logs) + 1 /\ SubSeq(logs2, 1, Len(logs)) = logs
    THEN {logs2[Len(logs2)]} ELSE {}

IsPrefix(s, t) == Len(s) <= Len(t) /\ SubSeq(t, 1, Len(s)) = s

RECURSIVE SumCounts(_)
SumCounts(logs) ==
    IF Len(logs) = 0 THEN 0 ELSE Head(logs).token_count + SumCounts(Tail(logs))

\* a step in which connection r commits a logUsage transaction
DebitCommits(r) ==
    tx[r].pc = "lu_commit" /\ tx'[r].pc = "idle" /\ last'.status = 200

\* ------------------------------------------------------------------- C1
\* C1: a logUsage request never leaves a new usage record without the
\* matching balance change, nor a balance change without the record, in
\* the database and in the in-memory backend alike.  Every debit record a
\* step appends comes with the decrement of its owner's balance by the
\* record's count, and a logUsage response that appended no record changed
\* no row.
RecordWithDebit(l, tbl, tbl2) ==
    /\ tbl[l.user_id].exists
    /\ tbl2[l.user_id] = [tbl[l.user_id] EXCEPT !.tokens = JsSub(@, l.token_count)]

LogUsageStepAtomic ==
    /\ \A l \in Appended(usage_logs, usage_logs') :
          l.feature_name \in Features => RecordWithDebit(l, users, users')
    /\ \A l \in Appended(mockUsageLogs, mockUsageLogs') :
          l.feature_name \in Features => RecordWithDebit(l, mockUsers, mockUsers')
    /\ (last' # last /\ last'.op = "logUsage"
           /\ usage_logs' = usage_logs /\ mockUsageLogs' = mockUsageLogs)
        => (users' = users /\ mockUsers' = mockUsers)

C1_LogUsageAtomic == [][LogUsageStepAtomic]_vars

\* ------------------------------------------------------------------- C2
\* C2: concurrent logUsage requests on one account lose no update: under
\* every interleaving of their statements the balance equals the initial
\* balance minus the sum of the counts of the account's records, and each
\* committed request appended exactly one record, its own.
BalancesAddUp ==
    \A id \in UserIds :
        users[id].exists =>
            users[id].tokens = Num(DefaultTokens - SumCounts(RowsOf(usage_logs, id)))

OneRecordPerDebit ==
    IF \E r \in Reqs : DebitCommits(r)
    THEN \E r \in Reqs :
            /\ DebitCommits(r)
            /\ usage_logs' = Append(usage_logs,
                   LogRow(tx[r].user, tx[r].feature, tx[r].tokenCount.v, tx[r].created_at))
    ELSE usage_logs' = usage_logs

C2_NoLostDebit == [][BalancesAddUp' /\ OneRecordPerDebit]_vars

\* two debits of the admin account are committed and a third, which was
\* open while another held the row, is about to commit
C2_Witness ==
    /\ ~useMockDb
    /\ Len(RowsOf(usage_logs, 1)) = 2
    /\ users[1].tokens.v < DefaultTokens - 1
    /\ \E r \in Reqs : tx[r].pc = "lu_commit" /\ tx[r].user = 1

\* ------------------------------------------------------------------- C3
\* C3: no operation writes a balance back as an absolute value; a debit
\* that commits between the SELECT and the UPDATE of updateUser is still
\* in the final balance.  When updateUser commits, the balance moves by
\* the difference between the requested value and the value it read.
UpdateUserCommits(r) ==
    tx[r].pc = "uu_commit" /\ tx'[r].pc = "idle" /\ last'.status = 200

C3_UpdateKeepsDebits ==
    [][\A r \in Reqs :
          UpdateUserCommits(r) =>
              users'[tx[r].target].tokens.v =
                  users[tx[r].target].tokens.v + TokenChange(r)]_vars

\* ------------------------------------------------------------------- C4
\* C4: a logUsage request whose tokenCount is 0 or absent leaves the
\* balance of the account unchanged and appends exactly one record, with
\* count 0 and the given feature tag.  In the database branch this is the
\* step that commits such a request; in the in-memory branch, where only
\* an account whose tokens is a number has a balance, it is the one step
\* of the handler.
ZeroCounts == {Undefined, Num(0)}

ZeroDebitCommit(r) ==
    (DebitCommits(r) /\ tx[r].tokenCount \in ZeroCounts) =>
        /\ users' = users
        /\ usage_logs' = Append(usage_logs,
               LogRow(tx[r].user, tx[r].feature, 0, tx[r].created_at))

ZeroDebitMock(h, f, tc) ==
    logUsageMock(h, f, tc) =>
        /\ \A id \in UserIds :
              mockUsers[id].tokens.t = "number" => mockUsers'[id] = mockUsers[id]
        /\ mockUsageLogs' = Append(mockUsageLogs, LogRow(h.id, f, 0, now))

AnswersUsage == last' # last /\ last'.op = "getMyUsage" /\ last'.status = 200

Occurrences(body, e) == Cardinality({i \in DOMAIN body : body[i] = e})

OwnRows(uid, e) ==
    LET logs == IF useMockDb THEN mockUsageLogs ELSE usage_logs
    IN  Cardinality({k \in DOMAIN logs :
            /\ logs[k].user_id = uid
            /\ logs[k].feature_name = e.feature
            /\ logs[k].token_count = e.tokenCount
            /\ logs[k].created_at = e.timestamp})

NewestFirstOwnOnly(body, uid) ==
    /\ \A i, j \in DOMAIN body : i < j => body[i].timestamp >= body[j].timestamp
    /\ \A i \in DOMAIN body : Occurrences(body, body[i]) <= OwnRows(uid, body[i])

C7_OwnHistoryNewestFirst ==
    [][AnswersUsage => NewestFirstOwnOnly(last'.body, last'.user)]_vars

\* a response with two entries of different instants, all the rows the
\* caller has, while the table also holds a row of another account and
\* lists the caller's rows oldest first
C7_Witness ==
    /\ ~useMockDb
    /\ last.op = "getMyUsage"
    /\ Len(last.body) = 2
    /\ last.body[1].timestamp > last.body[2].timestamp
    /\ Len(RowsOf(usage_logs, last.user)) = 2
    /\ Len(usage_logs) = 3
    /\ RowsOf(usage_logs, last.user)[1].created_at = last.body[2].timestamp

\* ------------------------------------------------------------------- C8
\* C8: usage records are append-only: whatever request is served, the
\* records an account had are still there afterwards, unchanged and in
\* the same order, unless the step deleted the account.
AccountDeleted(tbl, tbl2, id) == tbl[id].exists /\ ~tbl2[id].exists

C8_AppendOnly ==
    [][\A id \in UserIds :
          /\ \/ AccountDeleted(users, users', id)
             \/ IsPrefix(RowsOf(usage_logs, id), RowsOf(usage_logs', id))
          /\ \/ AccountDeleted(mockUsers, mockUsers', id)
             \/ IsPrefix(RowsOf(mockUsageLogs, id), RowsOf(mockUsageLogs', id))]_vars

\* the second account has been deleted from the database and the records
\* of the first are still in the table
C8_Witness ==
    /\ ~useMockDb
    /\ last.op = "deleteUser" /\ last.status = 200
    /\ nextUserId = 3 /\ ~users[2].exists
    /\ Len(usage_logs) >= 2
    /\ Len(RowsOf(usage_logs, 1)) = Len(usage_logs)

\* ------------------------------------------------------------------- C9
\* C9: a request to an authenticated route with no bearer token, or with a
\* token that is invalid or expired, is answered 401 (missing) or 403
\* (invalid) before the handler runs: no Gateway call, no stored upload,
\* no database or in-memory write, no transaction opened.
Unauthenticated ==
    last' # last /\ last'.op \in AuthedOps \cup AdminOps /\ last'.credential # "valid"

C9_RejectedBeforeHandler ==
    [][Unauthenticated =>
          /\ last'.status = IF last'.credential = "none" THEN 401 ELSE 403
          /\ ~last'.handler /\ ~last'.gateway /\ last'.files = 0
          /\ UNCHANGED <<users, usage_logs, mockUsers, mockUsageLogs,
                         nextUserId, jwt, lock, tx>>]_vars

\* a token that has expired was just refused on the chat route
C9_Witness ==
    /\ last.op = "chat"
    /\ last.credential = "expired"
    /\ last.status = 403
    /\ ~last.handler

\* ------------------------------------------------------------------ C10
\* C10: at every authenticated request the account of the caller exists,
\* is approved and has not expired; no Gateway call is made for an account
\* that was unapproved, expired or deleted after its token was issued.
\* Stated for the database backend with the rule login applies.
GoodStanding(row) == row.exists /\ LoginStatus(row, TRUE) = 200

C10_CallerInGoodStanding ==
    [][(last' # last /\ last'.gateway /\ ~useMockDb)
          => GoodStanding(users[last'.user])]_vars

\* Browser traffic: the four operations that call the Gateway, one at a
\* time, with every answer the server and the userService can give.
NextClient ==
    \/ handleGenerate
    \/ \E resp \in ResearchResponses : handleGenerateResearch(resp)
    \/ \E resp \in ApiResponses : handleGenerateImage(resp)
    \/ \E ok \in BOOLEAN : handleGenerateSave(ok)
    \/ \E ok \in BOOLEAN : handleGenerateLog(ok)
    \/ handleEdit
    \/ \E resp \in ApiResponses : handleEditImage(resp)
    \/ \E ok \in BOOLEAN : handleEditSave(ok)
    \/ \E ok \in BOOLEAN : handleEditLog(ok)
    \/ generatorSubmit
    \/ \E resp \in ApiResponses : generatorImage(resp)
    \/ \E ok \in BOOLEAN : generatorLog(ok)
    \/ \E ok \in BOOLEAN : generatorSave(ok)
    \/ \E newSession \in BOOLEAN : handleSend(newSession)
    \/ \E ok \in BOOLEAN : handleSendSession(ok)
    \/ \E ok \in BOOLEAN : handleSendSaveUser(ok)
    \/ \E resp \in ChatResponses : handleSendStream(resp)
    \/ \E ok \in BOOLEAN, logged \in BOOLEAN : handleSendSaveModel(ok, logged)

SpecClient == Init /\ [][NextClient]_vars

\* ------------------------------------------------------------------- C5
\* C5: every operation whose Gateway calls and artifact persistence
\* completed (infographic generate, image edit, simple image generation,
\* chat exchange) makes exactly one logUsage request, carrying the cost
\* the Gateway reported: never none, never two.
Completed ==
    /\ ui.pc = "idle" /\ ui.op # ""
    /\ ui.gateway = "ok" /\ ui.persisted /\ ~ui.failed

C5_OneRecordPerOperation == Completed => ui.logUsage = <<Num(ui.reported)>>

\* ------------------------------------------------------------------- C6
\* C6: no logUsage request is made for an operation one of whose Gateway
\* calls (research, generate-image, edit-image, generate-simple-image,
\* chat) returned an error.
C6_NoChargeAfterFailure == ui.gateway = "failed" => ui.logUsage = <<>>

\* an infographic whose research was answered with a cost and whose image
\* generation then failed
C6_Witness ==
    /\ ui.pc = "idle" /\ ui.op = "handleGenerate"
    /\ ui.gateway = "failed" /\ ui.reported > 0

\* ------------------------------------------------------------------ C11
\* C11: within one stream session the text events written to the client
\* appear in the order the chunks were received from the Gateway stream,
\* and each event carries the text of exactly one chunk: the texts of the
\* text events are, one for one and in the same order, the texts of the
\* chunks received that carry text.
TextsWritten(s) ==
    LET events == SelectSeq(s.written, LAMBDA e : e.type = "text")
    IN  [i \in DOMAIN events |-> events[i].text]

TextsReceived(s) == SelectSeq(s.received, LAMBDA t : Len(t) > 0)

C11_ChunkOrderKept == TextsWritten(sse) = TextsReceived(sse)

\* a session that received three chunks, the second without text and the
\* other two with different texts, and wrote two text events
C11_Witness ==
    /\ Len(sse.received) = 3
    /\ Len(sse.received[2]) = 0
    /\ Len(sse.received[1]) > 0 /\ Len(sse.received[3]) > 0
    /\ sse.received[1] # sse.received[3]
    /\ Len(TextsWritten(sse)) = 2

\* ------------------------------------------------------------------ C12
\* C12: every streaming response that completes successfully (chat,
\* streamTranscript, streaming processAudio) ends with the sentinel event
\* [DONE]: it is the last event written before the transport is closed.
Events(s, type) == SelectSeq(s.written, LAMBDA e : e.type = type)

Succeeded(s) == s.status = 200 /\ s.ended /\ s.failure = "none"

C12_EndsWithSentinel ==
    Succeeded(sse) =>
        /\ Len(sse.written) > 0
        /\ sse.written[Len(sse.written)] = DoneSentinel

\* ------------------------------------------------------------------ C13
\* C13: in a session that ends with a terminal event carrying text (the
\* done event of the streaming processAudio), the concatenation of the
\* texts of all text events of the session equals the content field of
\* the terminal event, character for character.
C13_ContentIsConcatenation ==
    \A i \in DOMAIN sse.written :
        sse.written[i].type = "done" =>
            sse.written[i].text = Concat(TextsWritten(sse))

\* ------------------------------------------------------------------ C14
\* C14: when the Gateway stream fails after zero or more chunks were
\* relayed, the relay writes exactly one error event, no [DONE] sentinel
\* and no done event, nothing after the error event, and closes the
\* transport.
GatewayFailed(s) == s.failure = "gateway" /\ s.pc = "done"

C14_OneErrorThenClose ==
    GatewayFailed(sse) =>
        /\ sse.ended
        /\ Len(Events(sse, "error")) = 1
        /\ sse.written[Len(sse.written)] = ErrorEvent
        /\ Len(Events(sse, "[DONE]")) = 0
        /\ Len(Events(sse, "done")) = 0

\* a chat stream that failed after two text events, one with grounding
\* metadata, had been relayed
C14_Witness ==
    /\ sse.route = "chat"
    /\ GatewayFailed(sse)
    /\ sse.metadata # 0
    /\ Len(TextsWritten(sse)) = 2

\* ------------------------------------------------------------------ C15
\* C15: when a chat or transcription stream ends with an error event, the
\* text accumulated before the error is not persisted: the browser stores
\* no model chat message for that exchange and the server no transcript
\* row for that session.
C15_ErrorStreamNotPersisted ==
    /\ (ui.op = "handleSend" /\ ui.gateway = "failed") => ~ui.persisted
    /\ (sse.route = "processAudio" /\ Len(Events(sse, "error")) > 0)
          => Len(transcripts) = 0

\* ------------------------------------------------------------------ C16
\* C16: in the streaming transcription pipeline the done event, with the
\* transcript id, is written only after the transcript row was inserted;
\* if the INSERT fails after text was streamed, the client receives an
\* error event and never a done event for that session.
HasRow(id) == \E k \in DOMAIN transcripts : transcripts[k].id = id

C16_DoneOnlyAfterInsert ==
    /\ \A i \in DOMAIN sse.written :
          sse.written[i].type = "done" => HasRow(sse.written[i].id)
    /\ sse.failure = "insert" =>
          /\ Len(Events(sse, "done")) = 0
          /\ Len(Events(sse, "error")) = 1
          /\ sse.written[Len(sse.written)] = ErrorEvent

\* the INSERT failed after two text events had been streamed
C16_Witness ==
    /\ sse.route = "processAudio"
    /\ sse.failure = "insert"
    /\ sse.ended
    /\ Len(TextsWritten(sse)) = 2
    /\ Len(transcripts) = 0

C18_WaitTerminates ==
    (sse.pc = "waitForFilesActive") ~> (sse.pc # "waitForFilesActive")

\* ------------------------------------------------------------------ C19
\* C19: every transient file written to temporary storage for a request
\* is removed by the time the request finishes, on every exit path,
\* including the files the upload middleware of the chat route and of the
\* transcription route stored on disk: once the handler is done, none of
\* the request's files is left in the temporary directory.
C19_TempFilesRemoved == sse.pc = "done" => tmpdir = {}

\* ------------------------------------------------------------------ C20
\* C20: for a research answer whose FACTS section has n non-empty lines,
\* the facts returned are min(n, 3) entries: the first min(n, 3) non-empty
\* lines, in their order, each with its leading list marker and the white
\* space around it removed.
Cleaned(line) == Trim(StripMarker(Trim(line)))

WithText(lines) == SelectSeq(lines, LAMBDA l : Len(Cleaned(l)) > 0)

\* the lines under the label of an answer that starts with FACTS:
SectionLines(text) == Split(SubSeq(text, Len(FactsLabel) + 2, Len(text)))

C20_FirstThreeFacts ==
    parsed.status = 200 =>
        LET lines == WithText(SectionLines(parsed.text))
        IN  /\ Len(parsed.facts) = Min(Len(lines), MaxFacts)
            /\ \A k \in DOMAIN parsed.facts : parsed.facts[k] = Cleaned(lines[k])

\* ------------------------------------------------------------------ C21
\* C21: the research parser never fails on what the model answers: for
\* every answer text (empty, without the FACTS label, without either
\* label, labels in any letter case) the request is answered 200 with a
\* list of facts, and the list is empty when the text has no FACTS label.
Mentions(text, label) ==
    \E i \in 1..(Len(text) - Len(label) + 1) :
        FoldCase(SubSeq(text, i, i + Len(label) - 1)) = label

C21_ParserNeverFails ==
    parsed.outcome = "answered" =>
        /\ parsed.status = 200
        /\ Len(parsed.facts) <= MaxFacts
        /\ ~Mentions(parsed.text, FactsLabel) => parsed.facts = <<>>

\* an answer with text in it and neither label
C21_Witness ==
    /\ parsed.status = 200 /\ Len(parsed.text) > 1
    /\ ~Mentions(parsed.text, FactsLabel)
    /\ ~Mentions(parsed.text, PromptLabel)
    /\ parsed.facts = <<>>

\* ------------------------------------------------------------------ C22
\* C22: when the answer text has no IMAGE_PROMPT section, research still
\* answers 200 and the prompt it returns is the default one, which
\* contains the topic, the language and the aspect ratio of the request;
\* the browser goes on to image generation with that prompt.
Contains(s, sub) ==
    \E i \in 1..(Len(s) - Len(sub) + 1) : SubSeq(s, i, i + Len(sub) - 1) = sub

C22_DefaultPromptUsed ==
    (parsed.outcome = "answered" /\ ~Mentions(parsed.text, PromptLabel)) =>
        /\ parsed.status = 200
        /\ Contains(parsed.imagePrompt, parsed.req.topic)
        /\ Contains(parsed.imagePrompt, parsed.req.language)
        /\ Contains(parsed.imagePrompt, parsed.req.aspectRatio)
        /\ ui.pc # "research" =>
              ui.pc = "generate-image" /\ ui.prompt = parsed.imagePrompt

\* the browser is about to generate the image from the default prompt of
\* an answer that had facts and no prompt
C22_Witness ==
    /\ parsed.status = 200 /\ parsed.facts # <<>>
    /\ ~Mentions(parsed.text, PromptLabel)
    /\ ui.pc = "generate-image"
    /\ ui.prompt = parsed.imagePrompt
    /\ Contains(ui.prompt, parsed.req.topic)

\* ------------------------------------------------------------------ C23
\* C23: a Gateway failure during research does not end the infographic
\* operation: the browser goes on to image generation with the default
\* prompt built from the request.
C23_ResearchFailureNotFatal ==
    (parsed.outcome = "failed" /\ ui.pc # "research") =>
        ui.pc = "generate-image" /\ ui.prompt = DefaultPrompt(parsed.req)

\* ------------------------------------------------------------------ C24
\* C24: an infographic operation whose research and image generation both
\* succeeded makes exactly one logUsage request, and its amount is the
\* token count research reported plus the one image generation reported.
BothStepsSucceeded ==
    /\ ui.op = "handleGenerate" /\ ui.pc = "idle"
    /\ ui.gateway = "ok"

C24_OneSummedDebit == BothStepsSucceeded => ui.logUsage = <<Num(ui.reported)>>

\* ------------------------------------------------------------------ C25
\* C25: when image generation fails after research succeeded and reported
\* a cost, that cost stands: a logUsage request debits what research
\* reported.
ResearchThenFailure ==
    /\ ui.op = "handleGenerate" /\ ui.pc = "idle"
    /\ ui.prompt # <<>> /\ ui.reported > 0 /\ ui.gateway = "failed"

C25_ResearchCostStands ==
    ResearchThenFailure => ui.logUsage = <<Num(ui.reported)>>

\* ------------------------------------------------------------------ C26
\* C26: whatever refine requests are made on a transcript, of either type
\* and in any order and number, its original content stays the value it
\* was created with, and every refinement is made from that original
\* content, never from an earlier refinement.
C26_RefineFromOriginal ==
    [][/\ \A k \in DOMAIN transcripts :
             transcripts'[k].original_content = transcripts[k].original_content
       /\ refined'.status = 200 =>
             LET row == transcripts'[refined'.id]
             IN  /\ refined'.originalText = row.original_content
                 /\ row.content = RefinedText(refined'.type, row.original_content)]_vars

\* a transcript organized and then formalized
C26_Witness ==
    /\ refined.done = <<"organize", "formalize">>
    /\ refined.status = 200
    /\ transcripts[refined.id].original_content # <<>>
    /\ transcripts[refined.id].content =
          <<"f">> \o transcripts[refined.id].original_content

\* ------------------------------------------------------------------ C27
\* C27: the searchResults of a research response has no two entries with
\* the same url, has an entry for the url of every grounding chunk that
\* has both a uri and a title, and has no entry that is not the title and
\* uri of such a chunk.
Sourced(c) == c.uri # "" /\ c.title # ""

C27_SearchResultsUnique ==
    parsed.status = 200 =>
        LET results == parsed.searchResults
            chunks == parsed.chunks
        IN  /\ \A i, j \in DOMAIN results :
                  results[i].url = results[j].url => i = j
            /\ \A k \in DOMAIN chunks :
                  Sourced(chunks[k]) =>
                      \E i \in DOMAIN results : results[i].url = chunks[k].uri
            /\ \A i \in DOMAIN results :
                  \E k \in DOMAIN chunks :
                      /\ Sourced(chunks[k])
                      /\ results[i] = [title |-> chunks[k].title,
                                       url |-> chunks[k].uri]

\* an answer grounded in two chunks of one url and one of another
C27_Witness ==
    /\ parsed.status = 200
    /\ Len(parsed.chunks) = 3 /\ Len(parsed.searchResults) = 2
    /\ \A k \in DOMAIN parsed.chunks : Sourced(parsed.chunks[k])

\* ------------------------------------------------------------------ C28
\* C28: each section the research parser extracts ends at the next label
\* or at the end of the text, whichever order the sections come in: the
\* prompt extracted does not contain the FACTS label, and no fact contains
\* the IMAGE_PROMPT label.
C28_SectionsEndAtLabels ==
    parsed.status = 200 =>
        /\ Mentions(parsed.text, PromptLabel) =>
              ~Mentions(parsed.imagePrompt, FactsLabel)
        /\ \A k \in DOMAIN parsed.facts :
              ~Mentions(parsed.facts[k], PromptLabel)

\* ------------------------------------------------------------------ C29
\* C29: once the client of a chat stream has disconnected, the handler
\* takes no further chunk from the Gateway: the upstream call is
\* cancelled, not consumed to its end.
C29_CancelledOnDisconnect ==
    [][(sse.route = "chat" /\ ~sse.connected) =>
          sse'.received = sse.received]_vars

\* ------------------------------------------------------------------ C30
\* C30: in a chat stream the metadata retained is that of the last chunk
\* that carried groundingMetadata; a stream that completes has at most one
\* groundingMetadata event, made from the metadata retained, written
\* after every text event and before [DONE].
Last(S) == CHOOSE k \in S : \A j \in S : j <= k

Places(s, type) == {i \in DOMAIN s.written : s.written[i].type = type}

C30_LatestMetadataOnce ==
    sse.route = "chat" =>
        /\ sse.metadata = IF sse.carried = {} THEN 0 ELSE Last(sse.carried)
        /\ Succeeded(sse) =>
              /\ Events(sse, "groundingMetadata") =
                    IF sse.carried = {} THEN <<>>
                    ELSE <<GroundingEvent(Last(sse.carried))>>
              /\ \A g \in Places(sse, "groundingMetadata") :
                    /\ \A t \in Places(sse, "text") : t < g
                    /\ \A d \in Places(sse, "[DONE]") : g < d

\* a completed chat stream of three chunks with text; the first and the
\* second carried groundingMetadata
C30_Witness ==
    /\ sse.route = "chat" /\ Succeeded(sse)
    /\ sse.carried = {1, 2}
    /\ Len(TextsWritten(sse)) = 3
    /\ Len(Events(sse, "groundingMetadata")) = 1

\* ------------------------------------------------------------------ C31
\* C31: in the upload-transcribe pipeline the transcription call to the
\* Gateway is issued only after every uploaded file was seen ACTIVE; if a
\* file ends in a state other than PROCESSING or ACTIVE, the pipeline
\* writes an error event, issues no transcription call and stores no
\* transcript.
TranscriptionCalled(s) ==
    \/ s.pc \in {"stream", "insert"}
    \/ s.failure \in {"gateway", "insert"}
    \/ Len(s.received) > 0
    \/ Len(Events(s, "done")) > 0

FileFailed(s) == s.route = "processAudio" /\ s.failure = "waitForFilesActive"

C31_TranscribeOnlyActiveFiles ==
    /\ [](sse.route = "processAudio" /\ (sse.pc = "open" \/ TranscriptionCalled(sse))
             => sse.files > 0 /\ sse.uploadedFiles = sse.files
                              /\ sse.activeFiles = sse.files)
    /\ [](FileFailed(sse)
             => /\ sse.pc = "done" /\ sse.ended
                /\ sse.written = <<ErrorEvent>>
                /\ ~TranscriptionCalled(sse))
    /\ [][FileFailed(sse') => transcripts' = transcripts]_vars

\* of two uploaded files the first was seen ACTIVE and the second FAILED
C31_Witness ==
    /\ FileFailed(sse)
    /\ sse.files = 2 /\ sse.uploadedFiles = 2
    /\ sse.activeFiles = 1
    /\ sse.ended

\* ------------------------------------------------------------------ C32
\* C32: a refine request whose refinement type is neither organize nor
\* formalize never reaches the Gateway and leaves the transcripts as they
\* are, and it is answered 400 whenever the server has a Gateway client
\* and the caller has the transcript, with its text; a request of type
\* organize or formalize for such a transcript is accepted: the prompt is
\* made and the answer is 200, or 500 when the Gateway or the UPDATE
\* rejects.  (A refine request is the one step that leaves the stream
\* relay as it is.)
\* the refinement types of the interface: organize and formalize
Offered(type) == type = "organize" \/ type = "formalize"

Refinable(r) ==
    /\ r.available /\ r.found
    /\ OriginalText(transcripts[r.id]) # <<>>

OldRecord(row) == row.original_content = <<>> /\ row.content # <<>>

C33_FallsBackToContent ==
    [][(/\ sse' = sse
        /\ refined'.status # 0
        /\ refined'.available /\ refined'.found
        /\ Offered(refined'.type)
        /\ OldRecord(transcripts[refined'.id]))
       => /\ refined'.status \in {200, 500}
          /\ refined'.originalText = transcripts[refined'.id].content]_vars

\* ------------------------------------------------------------------ C34
\* C34: the stream reader yields the same events however the bytes of the
\* response are split into reads: at every moment it has yielded exactly
\* the events before [DONE] whose bytes have arrived completely, each
\* once, in the order written and as the value the server wrote, so an
\* event that arrives in two reads is put together again; once [DONE] was
\* read the generator has returned and yields nothing more.
RECURSIVE BeforeDone(_)
BeforeDone(events) ==
    IF Len(events) = 0 \/ Head(events).type = "[DONE]" THEN <<>>
    ELSE <<Head(events)>> \o BeforeDone(Tail(events))

\* the events all of whose bytes are among the first n of the response
Arrived(events, n) ==
    LET whole == {k \in 0..Len(events) : Len(Bytes(SubSeq(events, 1, k))) <= n}
    IN  SubSeq(events, 1, CHOOSE k \in whole : \A j \in whole : j <= k)

C34_SplitIndependent ==
    reader.pc \in {"read", "returned", "ended"} =>
        LET n == Len(Bytes(reader.sent)) - Len(reader.rest)
        IN  /\ reader.yielded = BeforeDone(Arrived(reader.sent, n))
            /\ reader.pc = "ended" =>
                  reader.rest = <<>> /\ reader.yielded = BeforeDone(reader.sent)
            /\ reader.pc = "returned" <=>
                  Len(Arrived(reader.sent, n)) > Len(reader.yielded)

\* a chunk of two line breaks arrived in two reads, the first of which
\* ended between the two characters of a line break written as \ and n;
\* it was yielded as written, and [DONE] has not arrived yet
C34_Witness ==
    /\ reader.pc = "read"
    /\ reader.sent = <<TextEvent(<<"\n", "\n">>), DoneSentinel>>
    /\ reader.held
    /\ reader.yielded = <<TextEvent(<<"\n", "\n">>)>>
    /\ reader.buffer = <<>>
    /\ reader.rest = Bytes(<<DoneSentinel>>)

\* ------------------------------------------------------------------ C35
\* C35: an account that is not an admin cannot raise its own balance: a
\* logUsage request, whatever tokenCount it carries, leaves the balance of
\* the caller at most what it was.
NotAdmin(row) == row.exists /\ row.role # "admin" /\ row.tokens.t = "number"

C35_NoSelfCredit ==
    [][/\ \A r \in Reqs :
             (DebitCommits(r) /\ NotAdmin(users[tx[r].user]))
                 => users'[tx[r].user].tokens.v <= users[tx[r].user].tokens.v
       /\ (useMockDb /\ last' # last /\ last'.op = "logUsage" /\ last'.status = 200)
             => \A id \in UserIds :
                   NotAdmin(mockUsers[id])
                       => mockUsers'[id].tokens.v <= mockUsers[id].tokens.v]_vars

\* ------------------------------------------------------------------ C36
\* C36: the ledger reconciles with the balance: after any sequence of
\* logUsage requests and balance edits by the admin, the balance of an
\* account is its initial balance minus the counts of its debit records
\* plus the counts of its top-up records.
TopUps(logs, id) ==
    SelectSeq(logs, LAMBDA l : l.user_id = id /\ l.feature_name = TopUpFeature)

Debits(logs, id) ==
    SelectSeq(logs, LAMBDA l : l.user_id = id /\ l.feature_name # TopUpFeature)

C36_LedgerReconciles ==
    ~useMockDb =>
        \A id \in UserIds :
            users[id].exists =>
                users[id].tokens = Num(DefaultTokens - SumCounts(Debits(usage_logs, id))
                                                     + SumCounts(TopUps(usage_logs, id)))

\* ------------------------------------------------------------------ C37
\* C37: an account cannot change the chat data of another: a request
\* leaves the sessions that are not the caller's as they are, and the
\* messages of those sessions exactly the messages they had; in
\* particular saveMessage adds a message to a session, and moves the
\* session's updated_at, only when the session is the caller's.
OthersSessions(c, u) == SelectSeq(c.sessions, LAMBDA s : s.user_id # u)

OthersMessages(c, u) ==
    SelectSeq(c.messages,
              LAMBDA m : \E k \in DOMAIN chats.sessions :
                            /\ chats.sessions[k].id = m.session_id
                            /\ chats.sessions[k].user_id # u)

C37_OwnChatsOnly ==
    [][chats' # chats =>
          /\ OthersSessions(chats', last'.user) = OthersSessions(chats, last'.user)
          /\ OthersMessages(chats', last'.user) = OthersMessages(chats, last'.user)]_vars

\* ------------------------------------------------------------------ C38
\* C38: every research response with status 200 carries an imagePrompt
\* that is not empty: the text under the answer's IMAGE_PROMPT: label when
\* there is text under it, and else, also when the label is there with
\* nothing but white space after it, the default prompt.
C38_ImagePromptNotEmpty ==
    parsed.status = 200 =>
        /\ parsed.imagePrompt # <<>>
        /\ LET at == IndexOf(parsed.text, PromptLabel)
               body == Trim(SubSeq(parsed.text, at + Len(PromptLabel), Len(parsed.text)))
           IN  parsed.imagePrompt =
                  IF at = 0 \/ body = <<>> THEN DefaultPrompt(parsed.req) ELSE body
====
